---------------------------- MODULE Spec2Model ----------------------------
(***************************************************************************)
(* voice-auth-engine: the passphrase enroll/verify pipeline                *)
(* (src/src/voice_auth_engine/passphrase_auth.py) and the kernels it calls.*)
(*                                                                         *)
(* Numbers.  Python floats are modelled as exact rationals <<num, den>>    *)
(* with den > 0 (thresholds, normalized edit distances) and compared by    *)
(* cross-multiplication.  A cosine score dot/sqrt(|a|^2 |b|^2) is kept as  *)
(* the pair [dot, nsq] and compared with a rational by squaring.           *)
(* Embedding components are fixed-point integers in units of 1/Unit, so    *)
(* that the mean of up to MaxSamples vectors is exact.  Float rounding is  *)
(* not modelled.                                                           *)
(*                                                                         *)
(* Optional values (Python None) are sequences of length 0 or 1.           *)
(***************************************************************************)
EXTENDS Integers, Sequences, FiniteSets, TLC

VARIABLES auth, captured, enroller, verifier, succeeded, ret, sessions, cache,
          args, result

\* the state of the enroll/verify pipeline: the PassphraseAuth, the live
\* instance with the result of the last call, and (where several instances of
\* one PassphraseAuth are in use at once) those instances in sessions; and
\* the cache of model files the stages' models are loaded from, with the
\* ModelDownloader's last call (None where the cache is not modelled and the
\* collaborators' behaviours say whether a model loads)
pipeline == <<auth, captured, enroller, verifier, succeeded, ret, sessions, cache>>

\* one call of a single function of the library: its arguments and, once it
\* has returned or raised, its result (None before)
kernel == <<args, result>>

vars == <<auth, captured, enroller, verifier, succeeded, ret, sessions, cache,
          args, result>>

(***************************************************************************)
(* Bounds of the model                                                     *)
(***************************************************************************)
\* at most this many samples are accumulated by one Enroller
MaxSamples == 3

\* the sequences compared by the edit distance have at most this many symbols
MaxSeqLen == 3

\* a distance matrix has at most this many rows
MaxRows == 3

\* the decoder delivers at most this many frames for one payload
MaxFrames == 2

\* the VAD's queue holds at most this many segments for one PCM
MaxSegments == 2

\* the Embeddings serialized have at most this many values, or EXTRACTOR_DIM
MaxDim == 2

\* with several instances in use, each Enroller accumulates at most this many
MaxInstanceSamples == 2

\* the transfer of a model file takes this many blocks
MaxChunks == 2

\* the inner directory of a model archive holds this many members
MaxMembers == 2

(***************************************************************************)
(* Optional values and rationals                                           *)
(***************************************************************************)
None == <<>>

Some(x) == <<x>>

Rat(n, d) == <<n, d>>

RatLT(x, y) == x[1] * y[2] < y[1] * x[2]

RatLE(x, y) == x[1] * y[2] <= y[1] * x[2]

RatGT(x, y) == RatLT(y, x)

RatEQ(x, y) == x[1] * y[2] = y[1] * x[2]

RatAdd(x, y) == <<x[1] * y[2] + y[1] * x[2], x[2] * y[2]>>

Max(a, b) == IF a >= b THEN a ELSE b

Min(a, b) == IF a <= b THEN a ELSE b

Min3(a, b, c) == Min(a, Min(b, c))

RECURSIVE Factorial(_)
Factorial(n) == IF n <= 1 THEN 1 ELSE n * Factorial(n - 1)

\* one unit of an embedding component (the value 1.0)
Unit == Factorial(MaxSamples)

(***************************************************************************)
(* math.py                                                                 *)
(***************************************************************************)
RECURSIVE Dot(_, _, _)
Dot(a, b, k) == IF k = 0 THEN 0 ELSE a[k] * b[k] + Dot(a, b, k - 1)

\* score >= threshold, for the score dot/sqrt(nsq) and a rational threshold
ScoreGE(score, t) ==
    LET l == score.dot * t[2]
        r == t[1]
    IN  IF r >= 0
        THEN l >= 0 /\ l * l >= r * r * score.nsq
        ELSE l >= 0 \/ l * l <= r * r * score.nsq

ScoreEQ(score, t) ==
    LET l == score.dot * t[2]
        r == t[1]
    IN  ((l >= 0) = (r >= 0) \/ l = 0 \/ r = 0) /\ l * l = r * r * score.nsq

cosine_similarity(a, b) ==
    LET norm_a2 == Dot(a, a, Len(a))
        norm_b2 == Dot(b, b, Len(b))
    IN  IF norm_a2 = 0 \/ norm_b2 = 0
        THEN [dot |-> 0, nsq |-> 1]
        ELSE [dot |-> Dot(a, b, Len(a)), nsq |-> norm_a2 * norm_b2]

\* faulty variant: a substitution costs 2 (as a deletion and an insertion)
RECURSIVE CurrRowCost2(_, _, _, _, _)
CurrRowCost2(a, b, prev, j, curr) ==
    LET i == Len(curr)
    IN  IF i > Len(a) THEN curr
        ELSE LET cost == IF a[i] = b[j] THEN 0 ELSE 2
                 v == Min3(curr[i] + 1, prev[i + 1] + 1, prev[i] + cost)
             IN  CurrRowCost2(a, b, prev, j, Append(curr, v))

\* curr[i] for i = 1..len_a of the one-row DP, given prev and j (curr[0] = j);
\* rows are sequences holding index 0 at position 1
RECURSIVE CurrRow(_, _, _, _, _)
CurrRow(a, b, prev, j, curr) ==
    LET i == Len(curr)
    IN  IF i > Len(a) THEN curr
        ELSE LET cost == IF a[i] = b[j] THEN 0 ELSE 1
                 v == Min3(curr[i] + 1, prev[i + 1] + 1, prev[i] + cost)
             IN  CurrRow(a, b, prev, j, Append(curr, v))

RECURSIVE DpRows(_, _, _, _)
DpRows(a, b, prev, j) ==
    IF j > Len(b) THEN prev
    ELSE DpRows(a, b, CurrRow(a, b, prev, j, <<j>>), j + 1)

\* faulty variant: the distance is divided by len(a) + len(b)
normalized_edit_distance_sum(x, y) ==
    IF Len(x) = 0 /\ Len(y) = 0 THEN Rat(0, 1)
    ELSE LET a == IF Len(x) > Len(y) THEN y ELSE x
             b == IF Len(x) > Len(y) THEN x ELSE y
             prev == DpRows(a, b, [i \in 1..(Len(a) + 1) |-> i - 1], 1)
         IN  Rat(prev[Len(a) + 1], Len(a) + Len(b))

normalized_edit_distance(x, y) ==
    IF Len(x) = 0 /\ Len(y) = 0 THEN Rat(0, 1)
    ELSE LET a == IF Len(x) > Len(y) THEN y ELSE x
             b == IF Len(x) > Len(y) THEN x ELSE y
             prev == DpRows(a, b, [i \in 1..(Len(a) + 1) |-> i - 1], 1)
         IN  Rat(prev[Len(a) + 1], Max(Len(a), Len(b)))

pairwise_distances(sequences) ==
    LET n == Len(sequences)
    IN  [i \in 1..n |-> [j \in 1..n |->
            IF i = j THEN Rat(0, 1)
            ELSE normalized_edit_distance(sequences[Min(i, j)], sequences[Max(i, j)])]]

RECURSIVE RowSum(_, _)
RowSum(row, k) == IF k = 0 THEN Rat(0, 1) ELSE RatAdd(RowSum(row, k - 1), row[k])

\* the loop of select_medoid from row i on; min_sum = None stands for +inf
RECURSIVE MedoidLoop(_, _, _, _)
MedoidLoop(distances, i, min_index, min_sum) ==
    IF i > Len(distances) THEN min_index
    ELSE LET total == RowSum(distances[i], Len(distances[i]))
         IN  IF min_sum = None \/ RatLT(total, min_sum[1])
             THEN MedoidLoop(distances, i + 1, i, Some(total))
             ELSE MedoidLoop(distances, i + 1, min_index, min_sum)

\* faulty variant: the row with the largest sum is selected
RECURSIVE MedoidLoopMax(_, _, _, _)
MedoidLoopMax(distances, i, min_index, min_sum) ==
    IF i > Len(distances) THEN min_index
    ELSE LET total == RowSum(distances[i], Len(distances[i]))
         IN  IF min_sum = None \/ RatGT(total, min_sum[1])
             THEN MedoidLoopMax(distances, i + 1, i, Some(total))
             ELSE MedoidLoopMax(distances, i + 1, min_index, min_sum)

select_medoid_max(distances) == MedoidLoopMax(distances, 1, 1, None)

\* faulty variant: a later row with an equal sum replaces the selected one (<=)
RECURSIVE MedoidLoopLast(_, _, _, _)
MedoidLoopLast(distances, i, min_index, min_sum) ==
    IF i > Len(distances) THEN min_index
    ELSE LET total == RowSum(distances[i], Len(distances[i]))
         IN  IF min_sum = None \/ RatLE(total, min_sum[1])
             THEN MedoidLoopLast(distances, i + 1, i, Some(total))
             ELSE MedoidLoopLast(distances, i + 1, min_index, min_sum)

select_medoid_last(distances) == MedoidLoopLast(distances, 1, 1, None)

\* indices are 1-based here, 0-based in the program
select_medoid(distances) == MedoidLoop(distances, 1, 1, None)



(***************************************************************************)
(* External collaborators: what the decoder, the VAD model, the recognizer *)
(* with the G2P engine, and the embedding extractor may do on one input.   *)
(***************************************************************************)
TARGET_SAMPLE_RATE == 16000

\* the dimension of the vectors the CAM++ extractor yields
EXTRACTOR_DIM == 192

AudioData(n) == [samples |-> n, sample_rate |-> TARGET_SAMPLE_RATE]

Raised(kind) == [status |-> "raise", error |-> kind]

SUPPORTED_EXTENSIONS == {".wav", ".mp3", ".ogg", ".webm", ".aac", ".flac", ".m4a"}

\* str.lower() on the extensions of the model
Lower(ext) ==
    CASE ext = ".MP3" -> ".mp3" [] ext = ".WAV" -> ".wav" [] ext = ".Flac" -> ".flac"
      [] ext = ".TXT" -> ".txt" [] OTHER -> ext

\* a byte payload: empty or not, and what the decoder makes of it
\* (an exception, or the lengths of the resampled frames it delivers)
Payloads ==
    { [empty |-> TRUE, decodes |-> FALSE, frames |-> <<>>],
      [empty |-> FALSE, decodes |-> FALSE, frames |-> <<>>],
      [empty |-> FALSE, decodes |-> TRUE, frames |-> <<>>],
      [empty |-> FALSE, decodes |-> TRUE, frames |-> <<1000, 600>>] }

AudioInputs ==
    { [kind |-> "bytes", exists |-> TRUE, ext |-> "", data |-> d] : d \in Payloads }
    \cup { [kind |-> "path", exists |-> x, ext |-> e, data |-> d] :
              x \in BOOLEAN, e \in {".wav", ".MP3", ".txt"}, d \in Payloads }

\* the segments the VAD model reports (start, number of samples), in queue order
VadReports ==
    { <<>>,
      <<[start |-> 0, n |-> 800]>>,
      <<[start |-> 0, n |-> 1600]>>,
      <<[start |-> 0, n |-> 400], [start |-> 800, n |-> 400]>>,
      <<[start |-> 800, n |-> 1600]>> }

VadBehaviours == [model : {"ok", "missing"}, report : VadReports]

\* a transcript: blank after strip() or not, and the symbols G2P yields for it
Texts ==
    { [blank |-> TRUE, g2p |-> <<>>] }
    \cup { [blank |-> FALSE, g2p |-> p] :
             p \in { <<"pau">>, <<"a">>, <<"a", "pau", "b">>, <<"a", "a">>,
                     <<"b", "cl", "a">> } }

AsrBehaviours == [model : {"ok", "missing"}, text : Texts]

EmbeddingValues == { <<Unit, Unit, 0>>, <<0, Unit, Unit>>, <<0, 0, Unit>> }

EmbBehaviours == [model : {"ok", "missing"}, ready : BOOLEAN, values : EmbeddingValues]

(***************************************************************************)
(* audio_validator.py, audio_preprocessor.py                               *)
(***************************************************************************)
\* faulty variant: no check for an empty PCM
validate_audio_noempty(audio, min_seconds) ==
    IF RatLT(Rat(audio.samples, audio.sample_rate), min_seconds)
    THEN "InsufficientDurationError"
    ELSE "ok"

\* faulty variant: a duration equal to the minimum is refused (<= instead of <)
validate_audio_le(audio, min_seconds) ==
    IF audio.samples = 0 THEN "EmptyAudioError"
    ELSE IF RatLE(Rat(audio.samples, audio.sample_rate), min_seconds)
         THEN "InsufficientDurationError"
         ELSE "ok"

validate_audio(audio, min_seconds) ==
    IF audio.samples = 0 THEN "EmptyAudioError"
    ELSE IF RatLT(Rat(audio.samples, audio.sample_rate), min_seconds)
         THEN "InsufficientDurationError"
         ELSE "ok"

\* faulty variant: the extension is compared as written, without lower()
validate_extension_cased(ext) ==
    IF ext \notin SUPPORTED_EXTENSIONS THEN "UnsupportedExtensionError" ELSE "ok"

validate_extension(ext) ==
    IF Lower(ext) \notin SUPPORTED_EXTENSIONS THEN "UnsupportedExtensionError" ELSE "ok"

RECURSIVE SumSeq(_, _)
SumSeq(s, k) == IF k = 0 THEN 0 ELSE s[k] + SumSeq(s, k - 1)

\* a call that raised, and whether it had opened the decoder (av.open) before
Failed(kind, decoder) == [status |-> "raise", error |-> kind, decoder |-> decoder]

decode_audio(data) ==
    IF data.empty THEN Failed("AudioDecodeError", FALSE)
    ELSE IF ~data.decodes THEN Failed("AudioDecodeError", TRUE)
    ELSE IF data.frames = <<>> THEN Failed("AudioDecodeError", TRUE)
    ELSE [status |-> "ok", decoder |-> TRUE,
          audio |-> AudioData(SumSeq(data.frames, Len(data.frames)))]

load_audio(audio) ==
    IF audio.kind = "bytes" THEN decode_audio(audio.data)
    ELSE IF audio.kind = "path"
    THEN IF ~audio.exists THEN Failed("FileNotFoundError", FALSE)
         ELSE IF validate_extension(audio.ext) # "ok"
         THEN Failed(validate_extension(audio.ext), FALSE)
         ELSE decode_audio(audio.data)
    ELSE Failed("TypeError", FALSE)

(***************************************************************************)
(* vad.py, speech_recognizer.py, phoneme_extractor.py,                     *)
(* embedding_extractor.py, passphrase_validator.py                         *)
(***************************************************************************)
\* faulty variant: no early return on a PCM without samples
detect_speech_noempty(audio, vad) ==
    IF vad.model = "missing" THEN Raised("VadModelLoadError")
    ELSE [status |-> "ok",
          segments |-> [k \in 1..Len(vad.report) |->
              [start_sample |-> vad.report[k].start,
               end_sample |-> Min(vad.report[k].start + vad.report[k].n, audio.samples)]]]

detect_speech(audio, vad) ==
    IF vad.model = "missing" THEN Raised("VadModelLoadError")
    ELSE IF audio.samples = 0 THEN [status |-> "ok", segments |-> <<>>]
    ELSE [status |-> "ok",
          segments |-> [k \in 1..Len(vad.report) |->
              [start_sample |-> vad.report[k].start,
               end_sample |-> Min(vad.report[k].start + vad.report[k].n, audio.samples)]]]

\* len(samples[start:end]) of a Python slice with 0 <= start, 0 <= end
SliceLen(n, start, end) == Max(0, Min(end, n) - Min(start, n))

RECURSIVE PartsLen(_, _, _)
PartsLen(segments, n, k) ==
    IF k = 0 THEN 0
    ELSE PartsLen(segments, n, k - 1)
         + SliceLen(n, segments[k].start_sample, segments[k].end_sample)

extract_speech(segments, audio) ==
    IF segments = <<>> THEN AudioData(0)
    ELSE AudioData(PartsLen(segments, audio.samples, Len(segments)))

transcribe(audio, asr) ==
    IF asr.model = "missing" THEN Raised("RecognizerModelLoadError")
    ELSE IF audio.samples = 0 THEN Raised("RecognitionError")
    ELSE [status |-> "ok", text |-> asr.text]

FILTERED_PHONEMES == {"pau", "cl"}

NotFiltered(p) == p \notin FILTERED_PHONEMES

\* a Phoneme is the sequence of its values
extract_phonemes(text) ==
    IF text.blank THEN Raised("EmptyPassphraseError")
    ELSE [status |-> "ok", phoneme |-> SelectSeq(text.g2p, NotFiltered)]

unique_count(phoneme) == Cardinality({phoneme[k] : k \in 1..Len(phoneme)})

validate_passphrase(phoneme, min_unique_phonemes) ==
    IF unique_count(phoneme) < min_unique_phonemes THEN "InsufficientPhonemeError"
    ELSE "ok"

extract_embedding(audio, emb) ==
    IF emb.model = "missing" THEN Raised("EmbeddingModelLoadError")
    ELSE IF audio.samples = 0 THEN Raised("EmbeddingExtractionError")
    ELSE IF audio.samples < audio.sample_rate \div 10 THEN Raised("EmbeddingExtractionError")
    ELSE IF ~emb.ready THEN Raised("EmbeddingExtractionError")
    ELSE [status |-> "ok", values |-> emb.values]

\* the first pair (i, j), i < j, in row-major order whose distance exceeds the
\* threshold, from (i, j) on; None when there is none
RECURSIVE FirstInconsistent(_, _, _, _)
FirstInconsistent(distances, i, j, threshold) ==
    IF i > Len(distances) THEN None
    ELSE IF j > Len(distances) THEN FirstInconsistent(distances, i + 1, i + 2, threshold)
    ELSE IF RatGT(distances[i][j], threshold) THEN Some(<<i, j>>)
    ELSE FirstInconsistent(distances, i, j + 1, threshold)

validate_phoneme_consistency(samples, threshold) ==
    LET distances == pairwise_distances(samples)
        bad == FirstInconsistent(distances, 1, 2, threshold)
    IN  IF bad = None THEN [status |-> "ok"]
        ELSE [status |-> "raise", error |-> "PassphraseEnrollmentError",
              detail |-> [i |-> bad[1][1], j |-> bad[1][2],
                          distance |-> distances[bad[1][1]][bad[1][2]]]]

select_reference(samples) == samples[select_medoid(pairwise_distances(samples))]

(***************************************************************************)
(* passphrase_auth.py: PassphraseAuth                                      *)
(***************************************************************************)
\* the constructor's arguments: threshold, min_speech_seconds,
\* min_unique_phonemes (None: off), phoneme_threshold (None: off)
Policies ==
    [threshold : {Rat(1, 2)},
     min_speech_seconds : {Rat(0, 1), Rat(1, 10)},
     min_unique_phonemes : {None, Some(2)},
     phoneme_threshold : {None, Some(Rat(1, 2))}]

\* the outcome of one run of the pipeline: the stages invoked, in order, the
\* length of the speech-only PCM once extract_speech has returned, and either
\* the exception that ended the run or the embedding and the phoneme sequence
PRaise(kind, calls, speech) ==
    [status |-> "raise", error |-> kind, calls |-> calls, speech |-> speech,
     embedding |-> <<>>, phoneme |-> <<>>]

POk(embedding, phoneme, calls, speech) ==
    [status |-> "ok", error |-> "", calls |-> calls, speech |-> speech,
     embedding |-> embedding, phoneme |-> phoneme]

\* lines 134-136 on every input and every behaviour of the decoder and the VAD
SpeechResults ==
    UNION { LET l == load_audio(a)
            IN  IF l.status = "raise" THEN { PRaise(l.error, <<"load_audio">>, None) }
                ELSE { LET d == detect_speech(l.audio, v)
                       IN  IF d.status = "raise"
                           THEN PRaise(d.error, <<"load_audio", "detect_speech">>, None)
                           ELSE [status |-> "ok",
                                 speech |-> extract_speech(d.segments, l.audio)]
                       : v \in VadBehaviours }
            : a \in AudioInputs }

\* line 145
Embed(speech, phoneme, calls) ==
    { LET e == extract_embedding(speech, emb)
          called == Append(calls, "extract_embedding")
      IN  IF e.status = "raise" THEN PRaise(e.error, called, Some(speech.samples))
          ELSE POk(e.values, phoneme, called, Some(speech.samples))
      : emb \in EmbBehaviours }

\* lines 139-142
Phonetic(policy, speech, calls) ==
    UNION { LET t == transcribe(speech, asr)
                c1 == Append(calls, "transcribe")
                c2 == Append(c1, "extract_phonemes")
                c3 == Append(c2, "validate_passphrase")
                sp == Some(speech.samples)
            IN  IF t.status = "raise" THEN { PRaise(t.error, c1, sp) }
                ELSE LET p == extract_phonemes(t.text)
                     IN  IF p.status = "raise" THEN { PRaise(p.error, c2, sp) }
                         ELSE IF policy.min_unique_phonemes # None
                         THEN LET v == validate_passphrase(p.phoneme,
                                                           policy.min_unique_phonemes[1])
                              IN  IF v # "ok" THEN { PRaise(v, c3, sp) }
                                  ELSE Embed(speech, p.phoneme, c3)
                         ELSE Embed(speech, p.phoneme, c2)
            : asr \in AsrBehaviours }

\* faulty variant: the embedding is extracted before the duration check
FromSpeech_embed_first(policy, speech) ==
    { [r EXCEPT !.calls = IF r.status = "ok" THEN Append(@, "validate_audio") ELSE @]
      : r \in Embed(speech, <<>>, <<"load_audio", "detect_speech", "extract_speech">>) }

\* faulty variant: the recognizer runs under every policy
FromSpeech_always_phonetic(policy, speech) ==
    LET calls == <<"load_audio", "detect_speech", "extract_speech", "validate_audio">>
        v == validate_audio(speech, policy.min_speech_seconds)
    IN  IF v # "ok" THEN { PRaise(v, calls, Some(speech.samples)) }
        ELSE Phonetic(policy, speech, calls)

\* lines 137-146
FromSpeech(policy, speech) ==
    LET calls == <<"load_audio", "detect_speech", "extract_speech", "validate_audio">>
        v == validate_audio(speech, policy.min_speech_seconds)
    IN  IF v # "ok" THEN { PRaise(v, calls, Some(speech.samples)) }
        ELSE IF policy.min_unique_phonemes # None \/ policy.phoneme_threshold # None
        THEN Phonetic(policy, speech, calls)
        ELSE Embed(speech, <<>>, calls)

\* every outcome extract_passphrase can have under the policy
extract_passphrase(policy) ==
    UNION { IF s.status = "raise" THEN { s } ELSE FromSpeech(policy, s.speech)
            : s \in SpeechResults }

\* the same, tabulated per policy
Outcomes == [policy \in Policies |-> extract_passphrase(policy)]

\* faulty variant: a failure of the phoneme extraction is passed over and the
\* run goes on with an empty phoneme sequence
extract_passphrase_on_lenient(policy, a, vad, asr, emb) ==
    LET l == load_audio(a)
    IN  IF l.status = "raise" THEN PRaise(l.error, <<"load_audio">>, None)
        ELSE LET d == detect_speech(l.audio, vad)
        IN  IF d.status = "raise"
            THEN PRaise(d.error, <<"load_audio", "detect_speech">>, None)
            ELSE LET speech == extract_speech(d.segments, l.audio)
                     sp == Some(speech.samples)
                     c4 == <<"load_audio", "detect_speech", "extract_speech",
                             "validate_audio">>
                     v == validate_audio(speech, policy.min_speech_seconds)
                     Finish(phoneme, calls) ==
                         LET e == extract_embedding(speech, emb)
                             called == Append(calls, "extract_embedding")
                         IN  IF e.status = "raise" THEN PRaise(e.error, called, sp)
                             ELSE POk(e.values, phoneme, called, sp)
            IN  IF v # "ok" THEN PRaise(v, c4, sp)
                ELSE IF policy.min_unique_phonemes # None
                        \/ policy.phoneme_threshold # None
                THEN LET t == transcribe(speech, asr)
                         c5 == Append(c4, "transcribe")
                         c6 == Append(c5, "extract_phonemes")
                         c7 == Append(c6, "validate_passphrase")
                     IN  IF t.status = "raise" THEN PRaise(t.error, c5, sp)
                         ELSE LET p == extract_phonemes(t.text)
                                  phoneme == IF p.status = "raise" THEN <<>>
                                             ELSE p.phoneme
                         IN  IF policy.min_unique_phonemes # None
                             THEN LET u == validate_passphrase(
                                               phoneme, policy.min_unique_phonemes[1])
                                  IN  IF u # "ok" THEN PRaise(u, c7, sp)
                                      ELSE Finish(phoneme, c7)
                             ELSE Finish(phoneme, c6)
                ELSE Finish(<<>>, c4)

\* extract_passphrase (lines 134-146) on one input
extract_passphrase_on(policy, a, vad, asr, emb) ==
    LET l == load_audio(a)
    IN  IF l.status = "raise" THEN PRaise(l.error, <<"load_audio">>, None)
        ELSE LET d == detect_speech(l.audio, vad)
        IN  IF d.status = "raise"
            THEN PRaise(d.error, <<"load_audio", "detect_speech">>, None)
            ELSE LET speech == extract_speech(d.segments, l.audio)
                     sp == Some(speech.samples)
                     c4 == <<"load_audio", "detect_speech", "extract_speech",
                             "validate_audio">>
                     v == validate_audio(speech, policy.min_speech_seconds)
                     Finish(phoneme, calls) ==
                         LET e == extract_embedding(speech, emb)
                             called == Append(calls, "extract_embedding")
                         IN  IF e.status = "raise" THEN PRaise(e.error, called, sp)
                             ELSE POk(e.values, phoneme, called, sp)
            IN  IF v # "ok" THEN PRaise(v, c4, sp)
                ELSE IF policy.min_unique_phonemes # None
                        \/ policy.phoneme_threshold # None
                THEN LET t == transcribe(speech, asr)
                         c5 == Append(c4, "transcribe")
                         c6 == Append(c5, "extract_phonemes")
                         c7 == Append(c6, "validate_passphrase")
                     IN  IF t.status = "raise" THEN PRaise(t.error, c5, sp)
                         ELSE LET p == extract_phonemes(t.text)
                         IN  IF p.status = "raise" THEN PRaise(p.error, c6, sp)
                             ELSE IF policy.min_unique_phonemes # None
                             THEN LET u == validate_passphrase(
                                               p.phoneme, policy.min_unique_phonemes[1])
                                  IN  IF u # "ok" THEN PRaise(u, c7, sp)
                                      ELSE Finish(p.phoneme, c7)
                             ELSE Finish(p.phoneme, c6)
                ELSE Finish(<<>>, c4)

(***************************************************************************)
(* passphrase_auth.py: PassphraseAuthEnroller                              *)
(***************************************************************************)
NewEnroller == [embeddings |-> <<>>, phoneme_samples |-> <<>>]

\* faulty variant: what the pipeline left is appended also when it raised
add_sample_always(e, r) ==
    [embeddings |-> Append(e.embeddings, r.embedding),
     phoneme_samples |-> Append(e.phoneme_samples, r.phoneme)]

\* faulty variant: an empty phoneme sequence is not stored
add_sample_skip_empty(e, r) ==
    IF r.status = "raise" THEN e
    ELSE [embeddings |-> Append(e.embeddings, r.embedding),
          phoneme_samples |-> IF r.phoneme = <<>> THEN e.phoneme_samples
                              ELSE Append(e.phoneme_samples, r.phoneme)]

\* faulty variant: the new sample is put in front of the lists (insert(0, ...))
add_sample_prepend(e, r) ==
    IF r.status = "raise" THEN e
    ELSE [embeddings |-> <<r.embedding>> \o e.embeddings,
          phoneme_samples |-> <<r.phoneme>> \o e.phoneme_samples]

\* faulty variant: only the two most recent samples are kept
add_sample_window(e, r) ==
    IF r.status = "raise" THEN e
    ELSE LET kept(list) == IF Len(list) >= 2 THEN Tail(list) ELSE list
         IN  [embeddings |-> Append(kept(e.embeddings), r.embedding),
              phoneme_samples |-> Append(kept(e.phoneme_samples), r.phoneme)]

\* the Enroller after add_sample, r the outcome of extract_passphrase
add_sample(e, r) ==
    IF r.status = "raise" THEN e
    ELSE [embeddings |-> Append(e.embeddings, r.embedding),
          phoneme_samples |-> Append(e.phoneme_samples, r.phoneme)]

RECURSIVE ColumnSum(_, _, _)
ColumnSum(embeddings, k, i) ==
    IF i = 0 THEN 0 ELSE embeddings[i][k] + ColumnSum(embeddings, k, i - 1)

\* faulty variant: the component sums are not divided by the number of samples
MeanValues_sum(embeddings) ==
    [k \in 1..Len(embeddings[1]) |-> ColumnSum(embeddings, k, Len(embeddings))]

\* faulty variant: the mean is the first sample's embedding
MeanValues_first(embeddings) == embeddings[1]

\* np.mean(..., axis=0)
MeanValues(embeddings) ==
    [k \in 1..Len(embeddings[1]) |->
        ColumnSum(embeddings, k, Len(embeddings)) \div Len(embeddings)]

sample_count(e) == Len(e.embeddings)

Result(op, status, error, detail, calls, speech, value) ==
    [op |-> op, status |-> status, error |-> error, detail |-> detail,
     calls |-> calls, speech |-> speech, value |-> value]

\* faulty variant: a single sample is refused as well
enroll_min2(e, policy) ==
    IF Len(e.embeddings) < 2
    THEN Result("enroll", "raise", "ValueError", None, <<>>, None, None)
    ELSE LET embedding == MeanValues(e.embeddings)
         IN  IF policy.phoneme_threshold # None
             THEN LET c == validate_phoneme_consistency(e.phoneme_samples,
                                                        policy.phoneme_threshold[1])
                  IN  IF c.status = "raise"
                      THEN Result("enroll", "raise", c.error, Some(c.detail),
                                  <<"mean", "validate_phoneme_consistency">>, None, None)
                      ELSE Result("enroll", "ok", "", None,
                                  <<"mean", "validate_phoneme_consistency",
                                    "select_reference">>, None,
                                  Some([embedding |-> embedding,
                                        phoneme |-> select_reference(e.phoneme_samples)]))
             ELSE Result("enroll", "ok", "", None, <<"mean">>, None,
                         Some([embedding |-> embedding, phoneme |-> <<>>]))

\* faulty variant: the consistency check is not made
enroll_unchecked(e, policy) ==
    IF e.embeddings = <<>>
    THEN Result("enroll", "raise", "ValueError", None, <<>>, None, None)
    ELSE LET embedding == MeanValues(e.embeddings)
         IN  IF policy.phoneme_threshold # None
             THEN Result("enroll", "ok", "", None,
                         <<"mean", "validate_phoneme_consistency", "select_reference">>,
                         None,
                         Some([embedding |-> embedding,
                               phoneme |-> select_reference(e.phoneme_samples)]))
             ELSE Result("enroll", "ok", "", None, <<"mean">>, None,
                         Some([embedding |-> embedding, phoneme |-> <<>>]))

\* faulty variant: the reference is selected whenever the pipeline did phonetic work
\* (the condition of extract_passphrase instead of that of enroll)
enroll_always_reference(e, policy) ==
    IF e.embeddings = <<>>
    THEN Result("enroll", "raise", "ValueError", None, <<>>, None, None)
    ELSE LET embedding == MeanValues(e.embeddings)
         IN  IF policy.phoneme_threshold # None
             THEN LET c == validate_phoneme_consistency(e.phoneme_samples,
                                                        policy.phoneme_threshold[1])
                  IN  IF c.status = "raise"
                      THEN Result("enroll", "raise", c.error, Some(c.detail),
                                  <<"mean", "validate_phoneme_consistency">>, None, None)
                      ELSE Result("enroll", "ok", "", None,
                                  <<"mean", "validate_phoneme_consistency",
                                    "select_reference">>, None,
                                  Some([embedding |-> embedding,
                                        phoneme |-> select_reference(e.phoneme_samples)]))
             ELSE IF policy.min_unique_phonemes # None
             THEN Result("enroll", "ok", "", None, <<"mean", "select_reference">>, None,
                         Some([embedding |-> embedding,
                               phoneme |-> select_reference(e.phoneme_samples)]))
             ELSE Result("enroll", "ok", "", None, <<"mean">>, None,
                         Some([embedding |-> embedding, phoneme |-> <<>>]))

enroll(e, policy) ==
    IF e.embeddings = <<>>
    THEN Result("enroll", "raise", "ValueError", None, <<>>, None, None)
    ELSE LET embedding == MeanValues(e.embeddings)
         IN  IF policy.phoneme_threshold # None
             THEN LET c == validate_phoneme_consistency(e.phoneme_samples,
                                                        policy.phoneme_threshold[1])
                  IN  IF c.status = "raise"
                      THEN Result("enroll", "raise", c.error, Some(c.detail),
                                  <<"mean", "validate_phoneme_consistency">>, None, None)
                      ELSE Result("enroll", "ok", "", None,
                                  <<"mean", "validate_phoneme_consistency",
                                    "select_reference">>, None,
                                  Some([embedding |-> embedding,
                                        phoneme |-> select_reference(e.phoneme_samples)]))
             ELSE Result("enroll", "ok", "", None, <<"mean">>, None,
                         Some([embedding |-> embedding, phoneme |-> <<>>]))

(***************************************************************************)
(* passphrase_auth.py: PassphraseAuthVerifier                              *)
(***************************************************************************)
\* faulty variant: either criterion is enough (or instead of and)
verify_or(v, policy, r) ==
    IF r.status = "raise"
    THEN Result("verify", "raise", r.error, None, r.calls, r.speech, None)
    ELSE LET score == cosine_similarity(v.embedding, r.embedding)
             speaker_accepted == ScoreGE(score, policy.threshold)
         IN  IF v.phoneme # None /\ policy.phoneme_threshold # None
             THEN LET phoneme_score == normalized_edit_distance(v.phoneme[1], r.phoneme)
                      passphrase_accepted == RatLE(phoneme_score,
                                                   policy.phoneme_threshold[1])
                  IN  Result("verify", "ok", "", None, r.calls, r.speech,
                             Some([accepted |-> speaker_accepted \/ passphrase_accepted,
                                   score |-> score,
                                   phoneme_score |-> Some(phoneme_score),
                                   passphrase_accepted |-> Some(passphrase_accepted)]))
             ELSE Result("verify", "ok", "", None, r.calls, r.speech,
                         Some([accepted |-> speaker_accepted,
                               score |-> score,
                               phoneme_score |-> None,
                               passphrase_accepted |-> None]))

\* faulty variant: both comparisons are strict (> and <)
verify_strict(v, policy, r) ==
    IF r.status = "raise"
    THEN Result("verify", "raise", r.error, None, r.calls, r.speech, None)
    ELSE LET score == cosine_similarity(v.embedding, r.embedding)
             speaker_accepted == ScoreGE(score, policy.threshold)
                                 /\ ~ScoreEQ(score, policy.threshold)
         IN  IF v.phoneme # None /\ policy.phoneme_threshold # None
             THEN LET phoneme_score == normalized_edit_distance(v.phoneme[1], r.phoneme)
                      passphrase_accepted == RatLT(phoneme_score,
                                                   policy.phoneme_threshold[1])
                  IN  Result("verify", "ok", "", None, r.calls, r.speech,
                             Some([accepted |-> speaker_accepted /\ passphrase_accepted,
                                   score |-> score,
                                   phoneme_score |-> Some(phoneme_score),
                                   passphrase_accepted |-> Some(passphrase_accepted)]))
             ELSE Result("verify", "ok", "", None, r.calls, r.speech,
                         Some([accepted |-> speaker_accepted,
                               score |-> score,
                               phoneme_score |-> None,
                               passphrase_accepted |-> None]))

\* faulty variant: the phoneme threshold alone decides; a Verifier without a
\* reference compares with the empty sequence
verify_threshold_only(v, policy, r) ==
    IF r.status = "raise"
    THEN Result("verify", "raise", r.error, None, r.calls, r.speech, None)
    ELSE LET score == cosine_similarity(v.embedding, r.embedding)
             speaker_accepted == ScoreGE(score, policy.threshold)
             reference == IF v.phoneme # None THEN v.phoneme[1] ELSE <<>>
         IN  IF policy.phoneme_threshold # None
             THEN LET phoneme_score == normalized_edit_distance(reference, r.phoneme)
                      passphrase_accepted == RatLE(phoneme_score,
                                                   policy.phoneme_threshold[1])
                  IN  Result("verify", "ok", "", None, r.calls, r.speech,
                             Some([accepted |-> speaker_accepted /\ passphrase_accepted,
                                   score |-> score,
                                   phoneme_score |-> Some(phoneme_score),
                                   passphrase_accepted |-> Some(passphrase_accepted)]))
             ELSE Result("verify", "ok", "", None, r.calls, r.speech,
                         Some([accepted |-> speaker_accepted,
                               score |-> score,
                               phoneme_score |-> None,
                               passphrase_accepted |-> None]))

\* v.phoneme is None or Some(reference phoneme sequence)
verify(v, policy, r) ==
    IF r.status = "raise"
    THEN Result("verify", "raise", r.error, None, r.calls, r.speech, None)
    ELSE LET score == cosine_similarity(v.embedding, r.embedding)
             speaker_accepted == ScoreGE(score, policy.threshold)
         IN  IF v.phoneme # None /\ policy.phoneme_threshold # None
             THEN LET phoneme_score == normalized_edit_distance(v.phoneme[1], r.phoneme)
                      passphrase_accepted == RatLE(phoneme_score,
                                                   policy.phoneme_threshold[1])
                  IN  Result("verify", "ok", "", None, r.calls, r.speech,
                             Some([accepted |-> speaker_accepted /\ passphrase_accepted,
                                   score |-> score,
                                   phoneme_score |-> Some(phoneme_score),
                                   passphrase_accepted |-> Some(passphrase_accepted)]))
             ELSE Result("verify", "ok", "", None, r.calls, r.speech,
                         Some([accepted |-> speaker_accepted,
                               score |-> score,
                               phoneme_score |-> None,
                               passphrase_accepted |-> None]))

(***************************************************************************)
(* The state machine.  auth is the PassphraseAuth; enroller is the live    *)
(* Enroller's accumulator and verifier the live Verifier (None before      *)
(* create_verifier).  One instance is live at a time: create_verifier ends *)
(* the enrollment session and create_enroller starts a new one.  succeeded *)
(* counts the add_sample calls on the live Enroller that returned, and ret *)
(* is what the last call returned or raised.  The live instance holds the   *)
(* PassphraseAuth itself (self._auth = auth) and reads its thresholds at   *)
(* each call; captured is the policy as it was when the live instance was  *)
(* created.                                                                *)
(***************************************************************************)
Init ==
    /\ auth \in Policies
    /\ captured = auth
    /\ enroller = NewEnroller
    /\ verifier = None
    /\ succeeded = 0
    /\ ret = Result("__init__", "ok", "", None, <<>>, None, None)
    /\ sessions = None
    /\ cache = None
    /\ args = None
    /\ result = None

CreateEnroller ==
    /\ enroller' = NewEnroller
    /\ verifier' = None
    /\ succeeded' = 0
    /\ ret' = Result("create_enroller", "ok", "", None, <<>>, None, None)
    /\ captured' = auth
    /\ UNCHANGED <<auth, sessions, cache, kernel>>

AddSample ==
    /\ verifier = None
    /\ sample_count(enroller) < MaxSamples
    /\ \E r \in Outcomes[auth] :
        /\ enroller' = add_sample(enroller, r)
        /\ succeeded' = IF r.status = "ok" THEN succeeded + 1 ELSE succeeded
        /\ ret' = Result("add_sample", r.status, r.error, None, r.calls, r.speech, None)
    /\ UNCHANGED <<auth, captured, verifier, sessions, cache, kernel>>

Enroll ==
    /\ verifier = None
    /\ ret' = enroll(enroller, auth)
    /\ UNCHANGED <<auth, captured, enroller, verifier, succeeded, sessions, cache, kernel>>

\* create_verifier(embedding, phoneme) on the artifact enroll has just returned,
\* with or without its reference phonemes
CreateVerifier ==
    /\ ret.op = "enroll" /\ ret.status = "ok"
    /\ \E ph \in {None, Some(ret.value[1].phoneme)} :
        verifier' = Some([embedding |-> ret.value[1].embedding, phoneme |-> ph])
    /\ enroller' = NewEnroller
    /\ succeeded' = 0
    /\ ret' = Result("create_verifier", "ok", "", None, <<>>, None, None)
    /\ captured' = auth
    /\ UNCHANGED <<auth, sessions, cache, kernel>>

Verify ==
    /\ verifier # None
    /\ \E r \in Outcomes[auth] : ret' = verify(verifier[1], auth, r)
    /\ UNCHANGED <<auth, captured, enroller, verifier, succeeded, sessions, cache, kernel>>

Next == CreateEnroller \/ AddSample \/ Enroll \/ CreateVerifier \/ Verify

Spec == Init /\ [][Next]_vars

(***************************************************************************)
(* The same operations when the application also assigns the phoneme       *)
(* threshold of the PassphraseAuth after construction (a plain instance    *)
(* attribute, passphrase_auth.py 96; the class has no setter).             *)
(***************************************************************************)
SetPhonemeThreshold ==
    /\ \E t \in {None, Some(Rat(1, 2))} :
        /\ t # auth.phoneme_threshold
        /\ auth' = [auth EXCEPT !.phoneme_threshold = t]
    /\ UNCHANGED <<captured, enroller, verifier, succeeded, ret, sessions, cache, kernel>>

NextMutable ==
    CreateEnroller \/ AddSample \/ Enroll \/ CreateVerifier \/ Verify
        \/ SetPhonemeThreshold

SpecMutable == Init /\ [][NextMutable]_vars

(***************************************************************************)
(* Several instances of one PassphraseAuth in use at once.  sessions holds *)
(* the Enrollers and Verifiers by slot (None: not created), each with its  *)
(* own lists (PassphraseAuthEnroller.__init__ makes fresh ones), the       *)
(* instance the last call was made on, and for each Enroller the results   *)
(* of the add_sample calls on it that returned, in call order.  Calls on   *)
(* the instances interleave in any order; ret is what the last call        *)
(* returned or raised.                                                     *)
(***************************************************************************)
InstanceIds == {1, 2}

\* the policy of the shared PassphraseAuth: phoneme threshold active
InstancePolicy ==
    [threshold |-> Rat(1, 2), min_speech_seconds |-> Rat(0, 1),
     min_unique_phonemes |-> None, phoneme_threshold |-> Some(Rat(1, 2))]

\* what extract_passphrase may do on the inputs of these sessions: two
\* utterances of different speakers and texts, and a silent recording
InstanceOutcomes ==
    { r \in Outcomes[InstancePolicy] :
        IF r.status = "ok"
        THEN /\ r.speech = Some(1600)
             /\ \/ r.embedding = <<Unit, Unit, 0>> /\ r.phoneme = <<"a">>
                \/ r.embedding = <<0, 0, Unit>> /\ r.phoneme = <<"a", "b">>
        ELSE r.error = "EmptyAudioError" }

\* faulty variant: the lists are class attributes, shared by every Enroller
StoreSampleShared(enrollers, i, r) ==
    [j \in DOMAIN enrollers |->
        IF enrollers[j] = None THEN None ELSE Some(add_sample(enrollers[j][1], r))]

\* add_sample on Enroller i appends to that instance's own lists
StoreSample(enrollers, i, r) ==
    [enrollers EXCEPT ![i] = Some(add_sample(@[1], r))]

InitInstances ==
    /\ auth = InstancePolicy
    /\ captured = auth
    /\ enroller = NewEnroller
    /\ verifier = None
    /\ succeeded = 0
    /\ ret = Result("__init__", "ok", "", None, <<>>, None, None)
    /\ sessions = [enrollers |-> [i \in InstanceIds |-> None],
                   verifiers |-> [i \in InstanceIds |-> None],
                   log |-> [i \in InstanceIds |-> <<>>],
                   on |-> <<"auth", 0>>]
    /\ cache = None
    /\ args = None
    /\ result = None

CreateEnrollerAt(i) ==
    /\ sessions.enrollers[i] = None
    /\ sessions' = [sessions EXCEPT !.enrollers[i] = Some(NewEnroller),
                                    !.on = <<"auth", 0>>]
    /\ ret' = Result("create_enroller", "ok", "", None, <<>>, None, None)
    /\ UNCHANGED <<auth, captured, enroller, verifier, succeeded, cache, kernel>>

AddSampleOn(i) ==
    /\ sessions.enrollers[i] # None
    /\ sample_count(sessions.enrollers[i][1]) < MaxInstanceSamples
    /\ \E r \in InstanceOutcomes :
        /\ sessions' = [sessions EXCEPT
                          !.enrollers = StoreSample(@, i, r),
                          !.log[i] = IF r.status = "ok"
                                     THEN Append(@, [embedding |-> r.embedding,
                                                     phoneme |-> r.phoneme])
                                     ELSE @,
                          !.on = <<"enroller", i>>]
        /\ ret' = Result("add_sample", r.status, r.error, None, r.calls, r.speech, None)
    /\ UNCHANGED <<auth, captured, enroller, verifier, succeeded, cache, kernel>>

EnrollOn(i) ==
    /\ sessions.enrollers[i] # None
    /\ ret' = enroll(sessions.enrollers[i][1], auth)
    /\ sessions' = [sessions EXCEPT !.on = <<"enroller", i>>]
    /\ UNCHANGED <<auth, captured, enroller, verifier, succeeded, cache, kernel>>

\* create_verifier(embedding, phoneme) on the artifact enroll has just returned
CreateVerifierAt(k) ==
    /\ sessions.verifiers[k] = None
    /\ ret.op = "enroll" /\ ret.status = "ok"
    /\ sessions' = [sessions EXCEPT
                      !.verifiers[k] = Some([embedding |-> ret.value[1].embedding,
                                             phoneme |-> Some(ret.value[1].phoneme)]),
                      !.on = <<"auth", 0>>]
    /\ ret' = Result("create_verifier", "ok", "", None, <<>>, None, None)
    /\ UNCHANGED <<auth, captured, enroller, verifier, succeeded, cache, kernel>>

\* faulty variant: an accepted utterance replaces the Verifier's embedding
VerifyOn_adapting(k) ==
    /\ sessions.verifiers[k] # None
    /\ \E r \in InstanceOutcomes :
        /\ ret' = verify(sessions.verifiers[k][1], auth, r)
        /\ sessions' = [sessions EXCEPT
                          !.verifiers[k] =
                              IF ret'.status = "ok" /\ ret'.value[1].accepted
                              THEN Some([@[1] EXCEPT !.embedding = r.embedding])
                              ELSE @,
                          !.on = <<"verifier", k>>]
    /\ UNCHANGED <<auth, captured, enroller, verifier, succeeded, cache, kernel>>

VerifyOn(k) ==
    /\ sessions.verifiers[k] # None
    /\ \E r \in InstanceOutcomes : ret' = verify(sessions.verifiers[k][1], auth, r)
    /\ sessions' = [sessions EXCEPT !.on = <<"verifier", k>>]
    /\ UNCHANGED <<auth, captured, enroller, verifier, succeeded, cache, kernel>>

NextInstances ==
    \E i \in InstanceIds :
        CreateEnrollerAt(i) \/ AddSampleOn(i) \/ EnrollOn(i)
            \/ CreateVerifierAt(i) \/ VerifyOn(i)

SpecInstances == InitInstances /\ [][NextInstances]_vars

(***************************************************************************)
(* Enrollment of utterances of a five-phoneme passphrase under a phoneme   *)
(* threshold of 0.3: the passphrase as it should be, with the last phoneme *)
(* misrecognized, and with the first two misrecognized.  The Enroller is   *)
(* the live one; for an add_sample that returned, ret.value is the         *)
(* PassphraseExtractionResult add_sample got from extract_passphrase       *)
(* (its local result, line 188).                                           *)
(***************************************************************************)
UtterancePolicy ==
    [threshold |-> Rat(1, 2), min_speech_seconds |-> Rat(1, 10),
     min_unique_phonemes |-> None, phoneme_threshold |-> Some(Rat(3, 10))]

UtterancePhonemes ==
    { <<"a", "i", "u", "e", "o">>, <<"a", "i", "u", "e", "a">>,
      <<"k", "a", "u", "e", "o">> }

\* what extract_passphrase may do on a recording of one such utterance:
\* 0.1 s of speech, the embedding extractor answering with one of two vectors
\* or failing
UtteranceOutcomes ==
    { extract_passphrase_on(
          UtterancePolicy,
          [kind |-> "bytes", exists |-> TRUE, ext |-> "",
           data |-> [empty |-> FALSE, decodes |-> TRUE, frames |-> <<1000, 600>>]],
          [model |-> "ok", report |-> <<[start |-> 0, n |-> 1600]>>],
          [model |-> "ok", text |-> [blank |-> FALSE, g2p |-> p]],
          emb)
      : p \in UtterancePhonemes,
        emb \in { b \in EmbBehaviours : b.values \in { <<Unit, Unit, 0>>, <<0, 0, Unit>> } } }

InitEnrollment ==
    /\ auth = UtterancePolicy
    /\ captured = auth
    /\ enroller = NewEnroller
    /\ verifier = None
    /\ succeeded = 0
    /\ ret = Result("__init__", "ok", "", None, <<>>, None, None)
    /\ sessions = None
    /\ cache = None
    /\ args = None
    /\ result = None

AddUtterance ==
    /\ sample_count(enroller) < MaxSamples
    /\ \E r \in UtteranceOutcomes :
        /\ enroller' = add_sample(enroller, r)
        /\ succeeded' = IF r.status = "ok" THEN succeeded + 1 ELSE succeeded
        /\ ret' = Result("add_sample", r.status, r.error, None, r.calls, r.speech,
                         IF r.status = "ok"
                         THEN Some([embedding |-> r.embedding, phoneme |-> r.phoneme])
                         ELSE None)
    /\ UNCHANGED <<auth, captured, verifier, sessions, cache, kernel>>

NextEnrollment == CreateEnroller \/ AddUtterance \/ Enroll

SpecEnrollment == InitEnrollment /\ [][NextEnrollment]_vars

(***************************************************************************)
(* model_downloader.py: ModelDownloader on the cache of model files.       *)
(* cache.disk maps each model to what is at its dest: for a single-file    *)
(* model None (no file) or Some(k), a file of k blocks; for an archive     *)
(* model None (no directory) or Some of the directory's content, the inner *)
(* directory of the archive (None or Some(number of members in it)) and    *)
(* the number of members moved to dest itself.  cache.completed is the set *)
(* of models a download of which has run to its end without an exception,  *)
(* and cache.last the last call of the ModelDownloader.                    *)
(***************************************************************************)
\* DEFAULT_MODELS, in list order; the second is distributed as an archive
ModelList == <<"silero_vad", "sense_voice", "campplus">>

Models == { ModelList[k] : k \in 1..Len(ModelList) }

IsArchive(model) == model = "sense_voice"

EmptyDir == [inner |-> None, moved |-> 0]

\* what the network and the archive do during one download: whether urlopen
\* connects, how many blocks response.read delivers (fewer than MaxChunks: the
\* connection breaks), how many members extractall extracts (fewer than
\* MaxMembers: the archive is damaged)
NetBehaviours ==
    { [connect |-> FALSE, chunks |-> 0, extracted |-> 0] }
    \cup { [connect |-> TRUE, chunks |-> k, extracted |-> 0] : k \in 0..(MaxChunks - 1) }
    \cup { [connect |-> TRUE, chunks |-> MaxChunks, extracted |-> e] : e \in 0..MaxMembers }

\* the file at the destination afterwards (None: not created) and the exception
download_with_progress(b) ==
    IF ~b.connect THEN [status |-> "raise", error |-> "URLError", file |-> None]
    ELSE IF b.chunks < MaxChunks
    THEN [status |-> "raise", error |-> "IncompleteRead", file |-> Some(b.chunks)]
    ELSE [status |-> "ok", error |-> "", file |-> Some(MaxChunks)]

download_file(entry, b) ==
    LET t == download_with_progress(b)
    IN  [status |-> t.status, error |-> t.error,
         entry |-> IF t.file = None THEN entry ELSE t.file]

\* the temporary archive file is unlinked in the finally clause on every path
download_and_extract_tar(entry, b) ==
    LET dir == IF entry = None THEN EmptyDir ELSE entry[1]
        t == download_with_progress(b)
    IN  IF t.status = "raise"
        THEN [status |-> "raise", error |-> t.error, entry |-> Some(dir)]
        ELSE IF b.extracted < MaxMembers
        THEN [status |-> "raise", error |-> "TarError",
              entry |-> Some([dir EXCEPT !.inner = IF b.extracted = 0 THEN @
                                                  ELSE Some(b.extracted)])]
        ELSE [status |-> "ok", error |-> "",
              entry |-> Some([inner |-> None, moved |-> Max(dir.moved, MaxMembers)])]

is_downloaded(disk, model) ==
    IF IsArchive(model)
    THEN disk[model] # None
         /\ (disk[model][1].inner # None \/ disk[model][1].moved > 0)
    ELSE disk[model] # None

\* fetched: the url was requested
download(disk, model, b) ==
    IF is_downloaded(disk, model)
    THEN [status |-> "ok", error |-> "", fetched |-> FALSE, disk |-> disk]
    ELSE LET d == IF IsArchive(model) THEN download_and_extract_tar(disk[model], b)
                  ELSE download_file(disk[model], b)
         IN  [status |-> d.status, error |-> d.error, fetched |-> TRUE,
              disk |-> [disk EXCEPT ![model] = d.entry]]

ensure_download(disk, model, b) ==
    IF is_downloaded(disk, model)
    THEN [status |-> "ok", error |-> "", fetched |-> FALSE, disk |-> disk]
    ELSE LET d == download(disk, model, b)
         IN  IF d.status = "raise" THEN [d EXCEPT !.error = "ModelDownloadError"]
             ELSE d

\* the loop of download_all from the k-th model on; bs the behaviour per model
RECURSIVE DownloadFrom(_, _, _, _)
DownloadFrom(disk, completed, k, bs) ==
    IF k > Len(ModelList)
    THEN [status |-> "ok", error |-> "", model |-> "", disk |-> disk,
          completed |-> completed]
    ELSE LET d == download(disk, ModelList[k], bs[ModelList[k]])
         IN  IF d.status = "raise"
             THEN [status |-> "raise", error |-> d.error, model |-> ModelList[k],
                   disk |-> d.disk, completed |-> completed]
             ELSE DownloadFrom(d.disk,
                               IF d.fetched THEN completed \cup {ModelList[k]}
                               ELSE completed,
                               k + 1, bs)

Called(op, model, status, error, fetched, value) ==
    [op |-> op, model |-> model, status |-> status, error |-> error,
     fetched |-> fetched, value |-> value]

\* an empty models directory
InitDownloader ==
    /\ auth = [threshold |-> Rat(1, 2), min_speech_seconds |-> Rat(0, 1),
               min_unique_phonemes |-> None, phoneme_threshold |-> None]
    /\ captured = auth
    /\ enroller = NewEnroller
    /\ verifier = None
    /\ succeeded = 0
    /\ ret = Result("__init__", "ok", "", None, <<>>, None, None)
    /\ sessions = None
    /\ cache = [disk |-> [m \in Models |-> None], completed |-> {},
                last |-> Called("__init__", "", "ok", "", FALSE, None)]
    /\ args = None
    /\ result = None

IsDownloaded(model) ==
    /\ cache' = [cache EXCEPT
                   !.last = Called("is_downloaded", model, "ok", "", FALSE,
                                   Some(is_downloaded(cache.disk, model)))]
    /\ UNCHANGED <<auth, captured, enroller, verifier, succeeded, ret, sessions, kernel>>

Download(model) ==
    /\ \E b \in NetBehaviours :
        LET d == download(cache.disk, model, b)
        IN  cache' = [disk |-> d.disk,
                      completed |-> IF d.fetched /\ d.status = "ok"
                                    THEN cache.completed \cup {model}
                                    ELSE cache.completed,
                      last |-> Called("download", model, d.status, d.error,
                                      d.fetched, None)]
    /\ UNCHANGED <<auth, captured, enroller, verifier, succeeded, ret, sessions, kernel>>

EnsureDownload(model) ==
    /\ \E b \in NetBehaviours :
        LET d == ensure_download(cache.disk, model, b)
        IN  cache' = [disk |-> d.disk,
                      completed |-> IF d.fetched /\ d.status = "ok"
                                    THEN cache.completed \cup {model}
                                    ELSE cache.completed,
                      last |-> Called("ensure_download", model, d.status, d.error,
                                      d.fetched,
                                      IF d.status = "ok" THEN Some(model) ELSE None)]
    /\ UNCHANGED <<auth, captured, enroller, verifier, succeeded, ret, sessions, kernel>>

DownloadAll ==
    /\ \E bs \in [Models -> NetBehaviours] :
        LET d == DownloadFrom(cache.disk, cache.completed, 1, bs)
        IN  cache' = [disk |-> d.disk, completed |-> d.completed,
                      last |-> Called("download_all", d.model, d.status, d.error,
                                      FALSE, None)]
    /\ UNCHANGED <<auth, captured, enroller, verifier, succeeded, ret, sessions, kernel>>

NextDownloader ==
    \/ \E model \in Models :
          IsDownloaded(model) \/ Download(model) \/ EnsureDownload(model)
    \/ DownloadAll

SpecDownloader == InitDownloader /\ [][NextDownloader]_vars

(***************************************************************************)
(* Single calls of the library's functions.  args holds the name of the    *)
(* function and its arguments, drawn from bounded sets; the call stores    *)
(* what the function returned or raised in result.  The pipeline is idle.  *)
(***************************************************************************)
IdlePipeline ==
    /\ auth = [threshold |-> Rat(1, 2), min_speech_seconds |-> Rat(0, 1),
               min_unique_phonemes |-> None, phoneme_threshold |-> None]
    /\ captured = auth
    /\ enroller = NewEnroller
    /\ verifier = None
    /\ succeeded = 0
    /\ ret = Result("__init__", "ok", "", None, <<>>, None, None)
    /\ sessions = None
    /\ cache = None

\* validate_audio: PCM lengths around the boundaries, two sample rates, and
\* minimum durations below, at and above the durations of those lengths
ValidateAudioInputs ==
    [fn : {"validate_audio"},
     audio : [samples : {0, 1, 799, 800, 801, 1600}, sample_rate : {8000, 16000}],
     min_seconds : {Rat(-1, 10), Rat(0, 1), Rat(1, 20), Rat(1, 10), Rat(1, 5)}]

CallValidateAudio ==
    /\ args.fn = "validate_audio" /\ result = None
    /\ result' = Some(validate_audio(args.audio, args.min_seconds))
    /\ UNCHANGED <<pipeline, args>>

InitValidateAudio == IdlePipeline /\ args \in ValidateAudioInputs /\ result = None

SpecValidateAudio == InitValidateAudio /\ [][CallValidateAudio]_vars

\* the values of the elements of the sequences compared
Symbols == {"a", "b", "c"}

SeqsUpTo(S, n) == UNION { [1..k -> S] : k \in 0..n }

\* normalized_edit_distance: every pair of sequences of at most MaxSeqLen symbols
EditDistanceInputs ==
    [fn : {"normalized_edit_distance"},
     a : SeqsUpTo(Symbols, MaxSeqLen), b : SeqsUpTo(Symbols, MaxSeqLen)]

CallEditDistance ==
    /\ args.fn = "normalized_edit_distance" /\ result = None
    /\ result' = Some(normalized_edit_distance(args.a, args.b))
    /\ UNCHANGED <<pipeline, args>>

InitEditDistance == IdlePipeline /\ args \in EditDistanceInputs /\ result = None

SpecEditDistance == InitEditDistance /\ [][CallEditDistance]_vars

\* select_medoid: every square matrix of at most MaxRows rows with entries 0
\* or 1, and every symmetric matrix of that size with a zero diagonal and
\* entries 0, 1/3, 1/2 or 1
SquareMatrices(n) == [1..n -> [1..n -> {Rat(0, 1), Rat(1, 1)}]]

PairsBelow(n) == { p \in (1..n) \X (1..n) : p[1] < p[2] }

SymmetricMatrices(n) ==
    { [i \in 1..n |-> [j \in 1..n |->
          IF i = j THEN Rat(0, 1) ELSE f[<<Min(i, j), Max(i, j)>>]]]
      : f \in [PairsBelow(n) -> {Rat(0, 1), Rat(1, 3), Rat(1, 2), Rat(1, 1)}] }

SelectMedoidInputs ==
    [fn : {"select_medoid"},
     distances : UNION { SquareMatrices(n) \cup SymmetricMatrices(n) : n \in 1..MaxRows }]

CallSelectMedoid ==
    /\ args.fn = "select_medoid" /\ result = None
    /\ result' = Some(select_medoid(args.distances))
    /\ UNCHANGED <<pipeline, args>>

InitSelectMedoid == IdlePipeline /\ args \in SelectMedoidInputs /\ result = None

SpecSelectMedoid == InitSelectMedoid /\ [][CallSelectMedoid]_vars

\* verify: a Verifier holding the embedding (10, 0, 0, 0) and no reference or
\* one of two reference phoneme sequences, under cosine thresholds 0.5, 0.9
\* and 0.95 and phoneme thresholds off, 0.1, 0.4 and 0.5, on samples whose
\* embedding has cosine 1, 0.9, 0.3 or 0 with the Verifier's
VerifyInputs ==
    [fn : {"verify"},
     v : [embedding : {<<10, 0, 0, 0>>},
          phoneme : {None, Some(<<"a", "i", "u", "e", "o">>),
                     Some(<<"k", "a", "u", "e", "o">>)}],
     policy : [threshold : {Rat(1, 2), Rat(9, 10), Rat(19, 20)},
               min_speech_seconds : {Rat(0, 1)},
               min_unique_phonemes : {None},
               phoneme_threshold : {None, Some(Rat(1, 10)), Some(Rat(2, 5)),
                                    Some(Rat(1, 2))}],
     r : { POk(e, p, <<"load_audio", "detect_speech", "extract_speech",
                       "validate_audio", "transcribe", "extract_phonemes",
                       "extract_embedding">>, Some(1600)) :
           e \in {<<10, 0, 0, 0>>, <<9, 3, 3, 1>>, <<3, 9, 1, 3>>, <<0, 10, 0, 0>>},
           p \in {<<"a", "i", "u", "e", "o">>, <<"k", "a", "u", "e", "o">>,
                  <<"a", "i", "u", "e", "a">>, <<>>} }]

CallVerify ==
    /\ args.fn = "verify" /\ result = None
    /\ result' = Some(verify(args.v, args.policy, args.r))
    /\ UNCHANGED <<pipeline, args>>

InitVerify == IdlePipeline /\ args \in VerifyInputs /\ result = None

SpecVerify == InitVerify /\ [][CallVerify]_vars

\* load_audio and decode_audio: byte payloads that are empty, that the decoder
\* rejects, or for which it delivers at most MaxFrames frames of 0, 600 or
\* 1000 samples; paths that exist or not, with extensions in several cases
DecoderPayloads ==
    { [empty |-> TRUE, decodes |-> FALSE, frames |-> <<>>],
      [empty |-> FALSE, decodes |-> FALSE, frames |-> <<>>] }
    \cup { [empty |-> FALSE, decodes |-> TRUE, frames |-> f] :
             f \in SeqsUpTo({0, 600, 1000}, MaxFrames) }

LoadAudioInputs ==
    [fn : {"load_audio"},
     audio : { [kind |-> "bytes", exists |-> TRUE, ext |-> "", data |-> d] :
                 d \in DecoderPayloads }
             \cup { [kind |-> "path", exists |-> x, ext |-> e, data |-> d] :
                      x \in BOOLEAN,
                      e \in {".wav", ".WAV", ".MP3", ".Flac", ".m4a", ".txt", ".TXT", ""},
                      d \in DecoderPayloads }
             \cup { [kind |-> "other", exists |-> FALSE, ext |-> "", data |-> d] :
                      d \in DecoderPayloads }]

DecodeAudioInputs == [fn : {"decode_audio"}, audio : DecoderPayloads]

CallLoadAudio ==
    /\ args.fn = "load_audio" /\ result = None
    /\ result' = Some(load_audio(args.audio))
    /\ UNCHANGED <<pipeline, args>>

CallDecodeAudio ==
    /\ args.fn = "decode_audio" /\ result = None
    /\ result' = Some(decode_audio(args.audio))
    /\ UNCHANGED <<pipeline, args>>

InitLoadAudio ==
    IdlePipeline /\ args \in LoadAudioInputs \cup DecodeAudioInputs /\ result = None

NextLoadAudio == CallLoadAudio \/ CallDecodeAudio

SpecLoadAudio == InitLoadAudio /\ [][NextLoadAudio]_vars

\* detect_speech: a PCM of 0, 800 or 1600 samples, the VAD model loading or
\* not, and the VAD's queue holding at most MaxSegments segments, each with a
\* start and a number of samples, in any order, also beyond the PCM
DetectSpeechInputs ==
    [fn : {"detect_speech"},
     audio : [samples : {0, 800, 1600}, sample_rate : {TARGET_SAMPLE_RATE}],
     vad : [model : {"ok", "missing"},
            report : SeqsUpTo([start : {0, 400, 800, 1600, 2000},
                               n : {0, 400, 800, 1600}], MaxSegments)]]

CallDetectSpeech ==
    /\ args.fn = "detect_speech" /\ result = None
    /\ result' = Some(detect_speech(args.audio, args.vad))
    /\ UNCHANGED <<pipeline, args>>

InitDetectSpeech == IdlePipeline /\ args \in DetectSpeechInputs /\ result = None

SpecDetectSpeech == InitDetectSpeech /\ [][CallDetectSpeech]_vars

\* Embedding.to_bytes / from_bytes.  A float32 is its bit pattern, kept as the
\* pair <<high 16 bits, low 16 bits>>; a byte string is a sequence of 0..255.
\* the patterns of 0.0, 1.0, -0.0, a NaN, the largest pattern, and three
\* patterns whose four bytes differ
Float32Patterns ==
    { <<0, 0>>, <<16256, 0>>, <<32768, 0>>, <<32704, 0>>, <<65535, 65535>>,
      <<258, 772>>, <<0, 1>>, <<1, 0>> }

\* little-endian bytes of one float32
Float32Bytes(w) == <<w[2] % 256, w[2] \div 256, w[1] % 256, w[1] \div 256>>

\* faulty variant: the bytes of each value in big-endian order
to_bytes_be(values) ==
    [k \in 1..(4 * Len(values)) |->
        Float32Bytes(values[((k - 1) \div 4) + 1])[4 - ((k - 1) % 4)]]

\* ndarray.tobytes() of a float32 array
to_bytes(values) ==
    [k \in 1..(4 * Len(values)) |->
        Float32Bytes(values[((k - 1) \div 4) + 1])[((k - 1) % 4) + 1]]

\* np.frombuffer(data, dtype=np.float32).copy()
from_bytes(data) ==
    IF Len(data) % 4 # 0 THEN Raised("ValueError")
    ELSE [status |-> "ok",
          values |-> [i \in 1..(Len(data) \div 4) |->
                        <<data[4 * i] * 256 + data[4 * i - 1],
                          data[4 * i - 2] * 256 + data[4 * i - 3]>>]]

\* every Embedding of at most MaxDim values over the patterns, and Embeddings
\* of the extractor's dimension: constant ones and one with varying values
EmbeddingBytesInputs ==
    [fn : {"embedding_bytes"},
     values : SeqsUpTo(Float32Patterns, MaxDim)
              \cup { [i \in 1..EXTRACTOR_DIM |-> w] : w \in Float32Patterns }
              \cup { [i \in 1..EXTRACTOR_DIM |-> <<i, 65535 - 257 * i>>] }]

\* e.to_bytes()
CallToBytes ==
    /\ args.fn = "embedding_bytes" /\ result = None
    /\ result' = Some([bytes |-> to_bytes(args.values), restored |-> None])
    /\ UNCHANGED <<pipeline, args>>

\* Embedding.from_bytes on the bytes to_bytes returned
CallFromBytes ==
    /\ args.fn = "embedding_bytes" /\ result # None /\ result[1].restored = None
    /\ result' = Some([result[1] EXCEPT !.restored = Some(from_bytes(result[1].bytes))])
    /\ UNCHANGED <<pipeline, args>>

InitEmbeddingBytes == IdlePipeline /\ args \in EmbeddingBytesInputs /\ result = None

NextEmbeddingBytes == CallToBytes \/ CallFromBytes

SpecEmbeddingBytes == InitEmbeddingBytes /\ [][NextEmbeddingBytes]_vars

\* One add_sample or verify call on one audio input, with what the decoder
\* makes of the input and what the VAD model, the recognizer and the embedding
\* extractor do during the call.

\* the Verifier these calls are made on
CallVerifier == [embedding |-> <<Unit, Unit, 0>>, phoneme |-> Some(<<"a", "b">>)]

PipelineCallInputs ==
    [fn : {"add_sample", "verify"},
     policy : { p \in Policies : p.min_speech_seconds = Rat(1, 10) },
     audio : AudioInputs,
     vad : VadBehaviours,
     asr : { b \in AsrBehaviours : b.text.g2p \in { <<>>, <<"a">>, <<"a", "pau", "b">> } },
     emb : { b \in EmbBehaviours : b.values = <<Unit, Unit, 0>> }]

\* add_sample on a fresh Enroller: the outcome and the accumulator afterwards
CallAddSampleAudio ==
    /\ args.fn = "add_sample" /\ result = None
    /\ LET r == extract_passphrase_on(args.policy, args.audio, args.vad,
                                      args.asr, args.emb)
       IN  result' = Some([ret |-> Result("add_sample", r.status, r.error, None,
                                          r.calls, r.speech, None),
                           enroller |-> add_sample(NewEnroller, r)])
    /\ UNCHANGED <<pipeline, args>>

CallVerifyAudio ==
    /\ args.fn = "verify" /\ result = None
    /\ LET r == extract_passphrase_on(args.policy, args.audio, args.vad,
                                      args.asr, args.emb)
       IN  result' = Some([ret |-> verify(CallVerifier, args.policy, r),
                           enroller |-> NewEnroller])
    /\ UNCHANGED <<pipeline, args>>

InitPipelineCall == IdlePipeline /\ args \in PipelineCallInputs /\ result = None

NextPipelineCall == CallAddSampleAudio \/ CallVerifyAudio

SpecPipelineCall == InitPipelineCall /\ [][NextPipelineCall]_vars

(***************************************************************************)
(* Reference definitions the properties are stated with: the Levenshtein   *)
(* distance by its recurrence, and distance sums over a list of sequences. *)
(***************************************************************************)
RECURSIVE Levenshtein(_, _)
Levenshtein(a, b) ==
    IF Len(a) = 0 THEN Len(b)
    ELSE IF Len(b) = 0 THEN Len(a)
    ELSE Min3(Levenshtein(Tail(a), b) + 1,
              Levenshtein(a, Tail(b)) + 1,
              Levenshtein(Tail(a), Tail(b)) + (IF Head(a) = Head(b) THEN 0 ELSE 1))

Distance(a, b) ==
    IF Len(a) = 0 /\ Len(b) = 0 THEN Rat(0, 1)
    ELSE Rat(Levenshtein(a, b), Max(Len(a), Len(b)))

RECURSIVE DistanceSum(_, _, _)
DistanceSum(s, m, k) ==
    IF k = 0 THEN Rat(0, 1) ELSE RatAdd(DistanceSum(s, m, k - 1), Distance(s[m], s[k]))

VerifyReturned == ret.op = "verify" /\ ret.status = "ok"

EnrollReturned == ret.op = "enroll" /\ ret.status = "ok"

\* enroll was called on a non-empty accumulator with the phoneme threshold active
EnrollChecked ==
    ret.op = "enroll" /\ auth.phoneme_threshold # None /\ sample_count(enroller) > 0

(***************************************************************************)
(* Properties                                                              *)
(***************************************************************************)
\* C1: a Verifier with a phoneme threshold and a reference phoneme sequence
\* accepts exactly when the speaker score is at least the cosine threshold and
\* the phoneme score is at most the phoneme threshold; any other Verifier
\* accepts exactly when the speaker score is at least the cosine threshold.
C1_AcceptedIsConjunction ==
    VerifyReturned =>
        LET res == ret.value[1]
        IN  IF verifier[1].phoneme # None /\ auth.phoneme_threshold # None
            THEN /\ res.phoneme_score # None
                 /\ res.accepted =
                      (ScoreGE(res.score, auth.threshold)
                       /\ RatLE(res.phoneme_score[1], auth.phoneme_threshold[1]))
            ELSE res.accepted = ScoreGE(res.score, auth.threshold)

\* verify has rejected a sample whose speaker score passes and whose phoneme
\* score fails
C1_Witness ==
    /\ VerifyReturned
    /\ verifier[1].phoneme # None /\ auth.phoneme_threshold # None
    /\ ScoreGE(ret.value[1].score, auth.threshold)
    /\ RatGT(ret.value[1].phoneme_score[1], auth.phoneme_threshold[1])
    /\ ~ret.value[1].accepted

\* C2: both thresholds are inclusive: a speaker score equal to the cosine
\* threshold passes the speaker criterion, a phoneme score equal to the phoneme
\* threshold gives passphrase_accepted, and a sample at both is accepted.
C2_ThresholdsInclusive ==
    VerifyReturned =>
        LET res == ret.value[1]
            speakerAt == ScoreEQ(res.score, auth.threshold)
            phonemeAt == /\ res.phoneme_score # None
                         /\ RatEQ(res.phoneme_score[1], auth.phoneme_threshold[1])
        IN  /\ (speakerAt /\ res.phoneme_score = None) => res.accepted
            /\ phonemeAt => res.passphrase_accepted = Some(TRUE)
            /\ (speakerAt /\ phonemeAt) => res.accepted

\* verify has returned for a sample exactly at both thresholds
C2_Witness ==
    /\ VerifyReturned
    /\ ScoreEQ(ret.value[1].score, auth.threshold)
    /\ ret.value[1].phoneme_score # None
    /\ RatEQ(ret.value[1].phoneme_score[1], auth.phoneme_threshold[1])
    /\ ret.value[1].accepted

\* C3: an add_sample call that raises, at whatever stage, leaves the
\* embedding list, the phoneme list and sample_count as they were.
C3_FailedAddSampleKeepsAccumulator ==
    [][(ret'.op = "add_sample" /\ ret'.status = "raise") =>
          /\ enroller'.embeddings = enroller.embeddings
          /\ enroller'.phoneme_samples = enroller.phoneme_samples
          /\ sample_count(enroller') = sample_count(enroller)]_vars

\* add_sample has failed at the last stage, the embedding, on an Enroller that
\* holds samples
C3_Witness ==
    /\ ret.op = "add_sample" /\ ret.status = "raise"
    /\ ret.error = "EmbeddingExtractionError"
    /\ ret.calls[Len(ret.calls)] = "extract_embedding"
    /\ sample_count(enroller) > 0

\* C4: under every policy, a speech-only PCM of length zero makes add_sample and
\* verify raise EmptyAudioError at the duration check; neither the recognizer
\* nor the embedder is invoked.
C4_NoSpeechIsEmptyAudio ==
    (ret.op \in {"add_sample", "verify"} /\ ret.speech = Some(0)) =>
        /\ ret.status = "raise"
        /\ ret.error = "EmptyAudioError"
        /\ ret.calls = <<"load_audio", "detect_speech", "extract_speech", "validate_audio">>
        /\ \A k \in 1..Len(ret.calls) :
              ret.calls[k] \notin {"transcribe", "extract_phonemes", "extract_embedding"}

\* verify has met an empty speech PCM under a policy with no minimal duration
\* and with phonetic work
C4_Witness ==
    /\ ret.op = "verify" /\ ret.speech = Some(0)
    /\ auth.min_speech_seconds = Rat(0, 1)
    /\ auth.phoneme_threshold # None

\* C5: enroll raises the no-samples error exactly when no add_sample call has
\* succeeded on the Enroller, and it does so before any other work.
C5_NoSamplesIffNoneSucceeded ==
    ret.op = "enroll" =>
        /\ (ret.status = "raise" /\ ret.error = "ValueError") <=> (succeeded = 0)
        /\ succeeded = 0 => ret.calls = <<>>
        /\ succeeded = sample_count(enroller)

\* enroll has raised the no-samples error under a policy with the phoneme
\* threshold active
C5_Witness ==
    /\ ret.op = "enroll" /\ ret.status = "raise" /\ ret.error = "ValueError"
    /\ auth.phoneme_threshold # None

\* C6: the embedding enroll returns is the component-wise sum of the embeddings
\* of the successfully added samples divided by their number, not re-normalised;
\* with one sample it is that sample's embedding.
C6_EmbeddingIsMean ==
    EnrollReturned =>
        LET mean == ret.value[1].embedding
            n == sample_count(enroller)
        IN  /\ n = succeeded
            /\ Len(mean) = Len(enroller.embeddings[1])
            /\ \A k \in 1..Len(mean) :
                  mean[k] * n = ColumnSum(enroller.embeddings, k, n)
            /\ n = 1 => mean = enroller.embeddings[1]

\* enroll has returned the mean of two different embeddings, whose norm is
\* not the norm of the samples
C6_Witness ==
    /\ EnrollReturned
    /\ sample_count(enroller) >= 2
    /\ enroller.embeddings[1] # enroller.embeddings[2]
    /\ Dot(ret.value[1].embedding, ret.value[1].embedding, Len(ret.value[1].embedding))
         # Dot(enroller.embeddings[1], enroller.embeddings[1], Len(enroller.embeddings[1]))

\* C7: with the phoneme threshold active, enroll checks the consistency of all
\* accumulated phoneme sequences first; when every pair is within the threshold
\* it returns as reference an accumulated sequence whose sum of normalized edit
\* distances to the others is minimal; otherwise it raises the inconsistency
\* error and returns no artifact.
C7_ReferenceIsMedoid ==
    EnrollChecked =>
        LET s == enroller.phoneme_samples
            n == Len(s)
            t == auth.phoneme_threshold[1]
            consistent == \A i, j \in 1..n : i < j => RatLE(Distance(s[i], s[j]), t)
        IN  IF consistent
            THEN /\ ret.status = "ok"
                 /\ ret.calls = <<"mean", "validate_phoneme_consistency", "select_reference">>
                 /\ \E m \in 1..n :
                       /\ ret.value[1].phoneme = s[m]
                       /\ \A k \in 1..n :
                             RatLE(DistanceSum(s, m, n), DistanceSum(s, k, n))
            ELSE /\ ret.status = "raise"
                 /\ ret.error = "PassphraseEnrollmentError"
                 /\ ret.value = None
                 /\ ret.calls = <<"mean", "validate_phoneme_consistency">>

\* enroll has returned a reference that is not the first sample: the first
\* sample's distance sum is larger than the reference's
C7_Witness ==
    /\ EnrollChecked /\ ret.status = "ok"
    /\ sample_count(enroller) = 3
    /\ ret.value[1].phoneme # enroller.phoneme_samples[1]
    /\ RatLT(DistanceSum(enroller.phoneme_samples, 2, 3),
             DistanceSum(enroller.phoneme_samples, 1, 3))

\* C8: the consistency check fails exactly when some pair i < j of the
\* sequences has a normalized edit distance strictly above the threshold (a
\* pair at the threshold passes); the error names the first such pair in
\* row-major order and that pair's distance.
C8_FirstInconsistentPair ==
    EnrollChecked =>
        LET s == enroller.phoneme_samples
            n == Len(s)
            t == auth.phoneme_threshold[1]
            Exceeds(i, j) == i < j /\ RatGT(Distance(s[i], s[j]), t)
        IN  /\ (ret.status = "raise") <=> (\E i, j \in 1..n : Exceeds(i, j))
            /\ ret.status = "raise" =>
                 LET d == ret.detail[1]
                 IN  /\ d.i \in 1..n /\ d.j \in 1..n
                     /\ Exceeds(d.i, d.j)
                     /\ \A i, j \in 1..n :
                           Exceeds(i, j) => (d.i < i \/ (d.i = i /\ d.j <= j))
                     /\ RatEQ(d.distance, Distance(s[d.i], s[d.j]))

\* the check has passed two pairs exactly at the threshold and failed on the
\* last pair of three samples
C8_Witness ==
    /\ EnrollChecked /\ ret.status = "raise"
    /\ sample_count(enroller) = 3
    /\ ret.detail[1].i = 2 /\ ret.detail[1].j = 3
    /\ RatEQ(Distance(enroller.phoneme_samples[1], enroller.phoneme_samples[2]),
             auth.phoneme_threshold[1])
    /\ RatEQ(Distance(enroller.phoneme_samples[1], enroller.phoneme_samples[3]),
             auth.phoneme_threshold[1])

C10_Original ==
    VerifyReturned =>
        LET res == ret.value[1]
        IN  /\ (res.phoneme_score # None /\ res.passphrase_accepted # None)
                 <=> (auth.phoneme_threshold # None)
            /\ auth.phoneme_threshold = None =>
                 (res.phoneme_score = None /\ res.passphrase_accepted = None)

\* C10 as amended: the result of verify carries phoneme_score and
\* passphrase_accepted exactly when the phoneme threshold is active and the
\* Verifier was created with a reference phoneme sequence; otherwise both are
\* null.
C10_PhonemeFieldsIffThresholdAndReference ==
    VerifyReturned =>
        LET res == ret.value[1]
            active == auth.phoneme_threshold # None /\ verifier[1].phoneme # None
        IN  /\ active => (res.phoneme_score # None /\ res.passphrase_accepted # None)
            /\ ~active => (res.phoneme_score = None /\ res.passphrase_accepted = None)

\* verify has returned without the phoneme fields on a Verifier created without
\* reference phonemes, the phoneme threshold being active
C10_Witness ==
    /\ VerifyReturned
    /\ auth.phoneme_threshold # None /\ verifier[1].phoneme = None
    /\ ret.value[1].phoneme_score = None /\ ret.value[1].passphrase_accepted = None

\* C11: an Enroller or Verifier works with the policy as it was when the
\* instance was created: every add_sample, enroll and verify on the live
\* instance has an outcome the policy captured at its creation allows,
\* whatever was assigned to the PassphraseAuth's thresholds since.
C11_PolicyCapturedAtCreation ==
    [][ /\ Enroll => ret' = enroll(enroller, captured)
        /\ Verify => \E r \in Outcomes[captured] : ret' = verify(verifier[1], captured, r)
        /\ AddSample =>
             \E r \in Outcomes[captured] :
                /\ enroller' = add_sample(enroller, r)
                /\ ret' = Result("add_sample", r.status, r.error, None, r.calls,
                                 r.speech, None)
      ]_vars

\* C12: on one Enroller, whatever add_sample and enroll calls were made, the
\* embedding list and the phoneme list have the same length, sample_count is
\* that length, it is the number of add_sample calls that returned, and it is
\* 0 on a new Enroller.
C12_ListsSameLength ==
    /\ Len(enroller.embeddings) = Len(enroller.phoneme_samples)
    /\ sample_count(enroller) = Len(enroller.embeddings)
    /\ sample_count(enroller) = succeeded
    /\ ret.op \in {"__init__", "create_enroller"} => sample_count(enroller) = 0

\* two add_sample calls have returned, one of them storing an empty phoneme
\* sequence, and a further add_sample has raised
C12_Witness ==
    /\ ret.op = "add_sample" /\ ret.status = "raise"
    /\ succeeded = 2
    /\ \E k \in 1..Len(enroller.phoneme_samples) : enroller.phoneme_samples[k] = <<>>

\* C13 as stated: validate_audio fails with EmptyAudio exactly when the PCM
\* has no samples, fails with InsufficientDuration exactly when
\* len(pcm)/sample_rate < min_seconds, and passes when the duration equals
\* min_seconds.
C13_Original ==
    (args.fn = "validate_audio" /\ result # None) =>
        LET duration == Rat(args.audio.samples, args.audio.sample_rate)
        IN  /\ (result[1] = "EmptyAudioError") <=> (args.audio.samples = 0)
            /\ (result[1] = "InsufficientDurationError")
                  <=> RatLT(duration, args.min_seconds)
            /\ RatEQ(duration, args.min_seconds) => result[1] = "ok"

\* C13 as amended: validate_audio fails with EmptyAudio exactly when the PCM
\* has no samples; on a PCM with at least one sample it fails with
\* InsufficientDuration exactly when len(pcm)/sample_rate < min_seconds
\* (strictly) and passes otherwise, so also when the duration equals
\* min_seconds.
C13_ValidateAudio ==
    (args.fn = "validate_audio" /\ result # None) =>
        LET duration == Rat(args.audio.samples, args.audio.sample_rate)
        IN  /\ (result[1] = "EmptyAudioError") <=> (args.audio.samples = 0)
            /\ (result[1] = "InsufficientDurationError")
                  <=> (args.audio.samples > 0 /\ RatLT(duration, args.min_seconds))
            /\ (args.audio.samples > 0 /\ RatEQ(duration, args.min_seconds))
                  => result[1] = "ok"

\* validate_audio has passed a non-empty PCM whose duration is exactly the
\* positive minimum
C13_Witness ==
    /\ args.fn = "validate_audio" /\ result = Some("ok")
    /\ args.audio.samples > 0
    /\ RatGT(args.min_seconds, Rat(0, 1))
    /\ RatEQ(Rat(args.audio.samples, args.audio.sample_rate), args.min_seconds)

\* C14: normalized_edit_distance(a, b) is the Levenshtein distance of a and b
\* (unit costs) divided by max(|a|, |b|), and the same with the arguments
\* exchanged; it is 0 when both are empty, 1 when exactly one is empty, 0 when
\* a = b, and lies in [0, 1].
C14_EditDistance ==
    (args.fn = "normalized_edit_distance" /\ result # None) =>
        LET d == result[1]
            a == args.a
            b == args.b
        IN  /\ d[2] > 0
            /\ RatEQ(d, Distance(a, b))
            /\ RatEQ(d, Distance(b, a))
            /\ RatEQ(d, normalized_edit_distance(b, a))
            /\ (a = <<>> /\ b = <<>>) => RatEQ(d, Rat(0, 1))
            /\ ((a = <<>>) # (b = <<>>)) => RatEQ(d, Rat(1, 1))
            /\ a = b => RatEQ(d, Rat(0, 1))
            /\ RatLE(Rat(0, 1), d) /\ RatLE(d, Rat(1, 1))

\* the distance of a longer first argument to a shorter one that needs a
\* substitution and a deletion has been computed: 2/3
C14_Witness ==
    /\ args.fn = "normalized_edit_distance" /\ result # None
    /\ args.a = <<"a", "b", "c">> /\ args.b = <<"b", "b">>
    /\ RatEQ(result[1], Rat(2, 3))

\* C15: select_medoid returns an index whose row sum no row's sum is strictly
\* below, and every row with the same sum has an index at least as large
\* (indices from 1 here, from 0 in the program).
C15_SmallestMinimalRow ==
    (args.fn = "select_medoid" /\ result # None) =>
        LET d == args.distances
            n == Len(d)
            Total(k) == RowSum(d[k], Len(d[k]))
            m == result[1]
        IN  /\ m \in 1..n
            /\ \A k \in 1..n : ~RatLT(Total(k), Total(m))
            /\ \A k \in 1..n : RatEQ(Total(k), Total(m)) => k >= m

\* the second of three rows has been selected: the first has a larger sum and
\* the third the same sum
C15_Witness ==
    /\ args.fn = "select_medoid" /\ result = Some(2)
    /\ Len(args.distances) = 3
    /\ RatGT(RowSum(args.distances[1], 3), RowSum(args.distances[2], 3))
    /\ RatEQ(RowSum(args.distances[3], 3), RowSum(args.distances[2], 3))

\* the call of scenario S5: reference phonemes [a,i,u,e,o], a sample yielding
\* [k,a,u,e,o] with speaker score 0.9, cosine threshold 0.5, phoneme threshold
\* 0.1, and verify has returned
ScenarioS5 ==
    /\ args.fn = "verify" /\ result # None
    /\ args.v.phoneme = Some(<<"a", "i", "u", "e", "o">>)
    /\ args.r.phoneme = <<"k", "a", "u", "e", "o">>
    /\ ScoreEQ(cosine_similarity(args.v.embedding, args.r.embedding), Rat(9, 10))
    /\ args.policy.threshold = Rat(1, 2)
    /\ args.policy.phoneme_threshold = Some(Rat(1, 10))

\* C16 as stated: in scenario S5 verify returns accepted = false,
\* passphrase_accepted = false and phoneme_score = 0.2.
C16_Original ==
    ScenarioS5 =>
        /\ result[1].status = "ok"
        /\ result[1].value[1].accepted = FALSE
        /\ result[1].value[1].passphrase_accepted = Some(FALSE)
        /\ result[1].value[1].phoneme_score # None
        /\ RatEQ(result[1].value[1].phoneme_score[1], Rat(1, 5))

\* C16 as amended: in scenario S5 verify returns accepted = false,
\* passphrase_accepted = false, speaker score 0.9 and phoneme_score = 0.4 (two
\* edits over five symbols).
C16_ScenarioS5 ==
    ScenarioS5 =>
        /\ result[1].status = "ok"
        /\ result[1].value[1].accepted = FALSE
        /\ result[1].value[1].passphrase_accepted = Some(FALSE)
        /\ ScoreEQ(result[1].value[1].score, Rat(9, 10))
        /\ result[1].value[1].phoneme_score # None
        /\ RatEQ(result[1].value[1].phoneme_score[1], Rat(2, 5))

\* verify has returned in scenario S5 with a phoneme score
C16_Witness ==
    /\ ScenarioS5
    /\ result[1].status = "ok"
    /\ result[1].value[1].phoneme_score # None
    /\ Levenshtein(args.v.phoneme[1], args.r.phoneme) = 2

\* C17: load_audio on a path raises FileNotFoundError when the file does not
\* exist and UnsupportedExtensionError when it exists with an extension that,
\* lower-cased, is not one of .wav .mp3 .ogg .webm .aac .flac .m4a, in both
\* cases without opening the decoder; on bytes it checks no extension and
\* raises AudioDecodeError when the payload is empty or the decoder rejects it.
C17_LoadAudioErrors ==
    (args.fn = "load_audio" /\ result # None) =>
        LET a == args.audio
            r == result[1]
            supported == Lower(a.ext) \in {".wav", ".mp3", ".ogg", ".webm", ".aac",
                                           ".flac", ".m4a"}
        IN  /\ (a.kind = "path" /\ ~a.exists) =>
                 (r.status = "raise" /\ r.error = "FileNotFoundError" /\ ~r.decoder)
            /\ (a.kind = "path" /\ a.exists /\ ~supported) =>
                 (r.status = "raise" /\ r.error = "UnsupportedExtensionError"
                    /\ ~r.decoder)
            /\ (a.kind = "path" /\ a.exists /\ supported) => r = decode_audio(a.data)
            /\ a.kind = "bytes" =>
                 /\ r = decode_audio(a.data)
                 /\ (a.data.empty \/ ~a.data.decodes) =>
                      (r.status = "raise" /\ r.error = "AudioDecodeError")

\* load_audio has refused an existing file for its extension although the
\* decoder would have decoded the file's bytes
C17_Witness ==
    /\ args.fn = "load_audio" /\ result # None
    /\ args.audio.kind = "path" /\ args.audio.exists /\ args.audio.ext = ".TXT"
    /\ args.audio.data.decodes /\ args.audio.data.frames # <<>>
    /\ result[1].status = "raise" /\ result[1].error = "UnsupportedExtensionError"

\* C18: whenever load_audio or decode_audio returns, the PCM has at least one
\* sample and the sample rate 16000; when the decoder delivers no sample in
\* total (no frame, or frames of length 0 only) the call raises
\* AudioDecodeError.
C18_DecodedPcmNonEmpty ==
    (args.fn \in {"load_audio", "decode_audio"} /\ result # None) =>
        LET r == result[1]
            data == IF args.fn = "load_audio" THEN args.audio.data ELSE args.audio
        IN  /\ r.status = "ok" =>
                 (r.audio.samples >= 1 /\ r.audio.sample_rate = 16000)
            /\ (r.decoder /\ data.decodes /\ SumSeq(data.frames, Len(data.frames)) = 0)
                 => (r.status = "raise" /\ r.error = "AudioDecodeError")

\* C19 as stated: detect_speech on a PCM without samples returns an empty
\* segment list and raises nothing.
C19_Original ==
    (args.fn = "detect_speech" /\ result # None /\ args.audio.samples = 0) =>
        (result[1].status = "ok" /\ result[1].segments = <<>>)

\* C19 as amended: detect_speech on a PCM without samples returns an empty
\* segment list, whatever the VAD would report, provided the VAD model loads;
\* when the model does not load it raises VadModelLoadError, as on any PCM.
C19_EmptyPcmNoSegments ==
    (args.fn = "detect_speech" /\ result # None /\ args.audio.samples = 0) =>
        IF args.vad.model = "ok"
        THEN result[1].status = "ok" /\ result[1].segments = <<>>
        ELSE result[1].status = "raise" /\ result[1].error = "VadModelLoadError"

\* detect_speech has returned no segment for a PCM without samples although
\* the VAD's queue held a segment
C19_Witness ==
    /\ args.fn = "detect_speech" /\ result # None
    /\ args.audio.samples = 0 /\ args.vad.model = "ok" /\ args.vad.report # <<>>
    /\ result[1].status = "ok" /\ result[1].segments = <<>>

\* C20: whatever the VAD reports, every segment detect_speech returns has
\* 0 <= start < end <= len(audio), and the segments are sorted by start and
\* do not overlap.
C20_SegmentsWellFormed ==
    (args.fn = "detect_speech" /\ result # None /\ result[1].status = "ok") =>
        LET s == result[1].segments
        IN  /\ \A k \in 1..Len(s) :
                 /\ 0 <= s[k].start_sample
                 /\ s[k].start_sample < s[k].end_sample
                 /\ s[k].end_sample <= args.audio.samples
            /\ \A k \in 1..(Len(s) - 1) :
                 /\ s[k].start_sample <= s[k + 1].start_sample
                 /\ s[k].end_sample <= s[k + 1].start_sample

\* C21 as stated: for every Embedding e, from_bytes(to_bytes(e)) equals e
\* element by element, and to_bytes(e) is 768 bytes long, the 4 bytes of each
\* value in index order.
C21_Original ==
    (args.fn = "embedding_bytes" /\ result # None) =>
        /\ Len(result[1].bytes) = 768
        /\ result[1].restored # None =>
             /\ result[1].restored[1].status = "ok"
             /\ result[1].restored[1].values = args.values

\* C21 as amended: for every Embedding e of n values, from_bytes(to_bytes(e))
\* equals e element by element and to_bytes(e) is 4 * n bytes long, the 4
\* little-endian bytes of each value in index order: 768 bytes when e has the
\* extractor's 192 values.
C21_RoundTrip ==
    (args.fn = "embedding_bytes" /\ result # None) =>
        LET e == args.values
            b == result[1].bytes
        IN  /\ Len(b) = 4 * Len(e)
            /\ Len(e) = 192 => Len(b) = 768
            /\ \A i \in 1..Len(e) :
                  SubSeq(b, 4 * i - 3, 4 * i) = Float32Bytes(e[i])
            /\ result[1].restored # None =>
                 /\ result[1].restored[1].status = "ok"
                 /\ Len(result[1].restored[1].values) = Len(e)
                 /\ \A i \in 1..Len(e) : result[1].restored[1].values[i] = e[i]

\* an Embedding of 192 differing values has been serialized to 768 bytes and
\* restored
C21_Witness ==
    /\ args.fn = "embedding_bytes" /\ result # None
    /\ Len(args.values) = 192 /\ args.values[1] # args.values[2]
    /\ Len(result[1].bytes) = 768
    /\ result[1].restored # None /\ result[1].restored[1].status = "ok"


\* the accumulator of Enroller i holds exactly the results in log[i], in order
OwnSamplesInOrder(s, i) ==
    s.enrollers[i] # None =>
        LET e == s.enrollers[i][1]
        IN  /\ Len(e.embeddings) = Len(s.log[i])
            /\ Len(e.phoneme_samples) = Len(s.log[i])
            /\ \A k \in 1..Len(s.log[i]) :
                /\ e.embeddings[k] = s.log[i][k].embedding
                /\ e.phoneme_samples[k] = s.log[i][k].phoneme

\* C22: calls on distinct Enroller and Verifier instances of one PassphraseAuth
\* interleave without interference: after every call each Enroller's
\* accumulator holds exactly the results of the add_sample calls made on that
\* instance, in call order, and a call on one instance leaves every other
\* instance as it was, so that the sample_count and the enroll result of
\* another Enroller and the verify result of another Verifier on any input are
\* what they were before the call.
C22_InstancesIndependent ==
    [][ /\ \A i \in InstanceIds : OwnSamplesInOrder(sessions', i)
        /\ \A j \in InstanceIds :
            /\ (sessions'.on # <<"enroller", j>> /\ sessions.enrollers[j] # None) =>
                /\ sessions'.enrollers[j] = sessions.enrollers[j]
                /\ sample_count(sessions'.enrollers[j][1])
                     = sample_count(sessions.enrollers[j][1])
                /\ enroll(sessions'.enrollers[j][1], auth')
                     = enroll(sessions.enrollers[j][1], auth)
            /\ (sessions'.on # <<"verifier", j>> /\ sessions.verifiers[j] # None) =>
                /\ sessions'.verifiers[j] = sessions.verifiers[j]
                /\ \A r \in InstanceOutcomes :
                     verify(sessions'.verifiers[j][1], auth', r)
                       = verify(sessions.verifiers[j][1], auth, r)
      ]_vars

\* both Enrollers and both Verifiers exist, the Enrollers hold different
\* samples (two on the first, one on the second), and the last call was an
\* add_sample on the second Enroller that returned
C22_Witness ==
    /\ sessions # None
    /\ \A i \in InstanceIds : sessions.enrollers[i] # None /\ sessions.verifiers[i] # None
    /\ sample_count(sessions.enrollers[1][1]) = 2
    /\ sample_count(sessions.enrollers[2][1]) = 1
    /\ sessions.enrollers[1][1].embeddings[1] # sessions.enrollers[2][1].embeddings[1]
    /\ sessions.verifiers[1] # sessions.verifiers[2]
    /\ sessions.on = <<"enroller", 2>>
    /\ ret.op = "add_sample" /\ ret.status = "ok"


\* the stages of extract_passphrase in the order of its code (lines 134-145)
PipelineStages ==
    <<"load_audio", "detect_speech", "extract_speech", "validate_audio",
      "transcribe", "extract_phonemes", "validate_passphrase", "extract_embedding">>

StageIndex(stage) == CHOOSE k \in 1..Len(PipelineStages) : PipelineStages[k] = stage

Invoked(stage) == \E k \in 1..Len(ret.calls) : ret.calls[k] = stage

PhoneticActive == auth.min_unique_phonemes # None \/ auth.phoneme_threshold # None

\* C23: in every add_sample and verify call the stages are invoked in the order
\* load_audio, detect_speech, extract_speech, validate_audio, then (only under a
\* policy that requires phonetic work) transcribe, extract_phonemes and
\* validate_passphrase, and last extract_embedding; each at most once and none
\* of the first four passed over.  When the embedder is invoked, the duration
\* check and every enabled phoneme stage have been invoked before it (and have
\* returned, since the embedder came after them).
C23_StagesInOrder ==
    ret.op \in {"add_sample", "verify"} =>
        /\ \A k \in 1..Len(ret.calls) :
              \E n \in 1..Len(PipelineStages) : PipelineStages[n] = ret.calls[k]
        /\ \A k, l \in 1..Len(ret.calls) :
              k < l => StageIndex(ret.calls[k]) < StageIndex(ret.calls[l])
        /\ Len(ret.calls) >= 1
        /\ \A k \in 1..Min(Len(ret.calls), 4) : ret.calls[k] = PipelineStages[k]
        /\ \A k \in 1..Len(ret.calls) :
              StageIndex(ret.calls[k]) \in 5..7 => PhoneticActive
        /\ Invoked("extract_embedding") =>
              /\ ret.calls[Len(ret.calls)] = "extract_embedding"
              /\ Invoked("validate_audio")
              /\ PhoneticActive => Invoked("transcribe") /\ Invoked("extract_phonemes")
              /\ auth.min_unique_phonemes # None => Invoked("validate_passphrase")

\* a verify call has run all eight stages and returned
C23_Witness ==
    /\ ret.op = "verify" /\ ret.status = "ok"
    /\ ret.calls = PipelineStages

\* C25: in every add_sample and verify call that gets past the duration check,
\* the recognizer and the phoneme extractor are invoked if and only if
\* min_unique_phonemes or the phoneme threshold is set, and the unique-phoneme
\* check if and only if min_unique_phonemes is set (under the phoneme threshold
\* alone the phonemes go on unchecked); with both unset the recognizer is not
\* invoked and the phoneme sequence of the sample is empty.
C25_PhoneticStagesIffPolicy ==
    /\ ret.op \in {"add_sample", "verify"} =>
        /\ Invoked("transcribe") <=> (PhoneticActive /\ Len(ret.calls) > 4)
        /\ Invoked("extract_phonemes") <=> (PhoneticActive /\ Len(ret.calls) > 5)
        /\ Invoked("validate_passphrase") <=>
              (auth.min_unique_phonemes # None /\ Len(ret.calls) > 6)
        /\ (~PhoneticActive /\ Len(ret.calls) > 4) => ret.calls[5] = "extract_embedding"
    /\ ~PhoneticActive =>
          \A k \in 1..Len(enroller.phoneme_samples) : enroller.phoneme_samples[k] = <<>>

\* under the phoneme threshold alone, add_sample has stored a sample with a
\* single distinct phoneme: the recognizer ran, the unique-phoneme check did not
C25_Witness ==
    /\ auth.min_unique_phonemes = None /\ auth.phoneme_threshold # None
    /\ ret.op = "add_sample" /\ ret.status = "ok"
    /\ Invoked("transcribe") /\ ~Invoked("validate_passphrase")
    /\ enroller.phoneme_samples[Len(enroller.phoneme_samples)] = <<"a", "a">>


\* the stages extract_passphrase runs under a policy when none fails
PolicyStages(policy) ==
    LET Applies(stage) ==
            CASE stage \in {"transcribe", "extract_phonemes"} ->
                     policy.min_unique_phonemes # None \/ policy.phoneme_threshold # None
              [] stage = "validate_passphrase" -> policy.min_unique_phonemes # None
              [] OTHER -> TRUE
    IN  SelectSeq(PipelineStages, Applies)

\* the first stage that raises on the input, each stage given what the stages
\* before it returned, with its error; None when every stage returns
FirstFailure(policy, a, vad, asr, emb) ==
    LET F(stage, error) == Some([stage |-> stage, error |-> error])
        phonetic == policy.min_unique_phonemes # None \/ policy.phoneme_threshold # None
        l == load_audio(a)
        d == detect_speech(l.audio, vad)
        speech == extract_speech(d.segments, l.audio)
        t == transcribe(speech, asr)
        p == extract_phonemes(t.text)
        e == extract_embedding(speech, emb)
    IN  IF l.status = "raise" THEN F("load_audio", l.error)
        ELSE IF d.status = "raise" THEN F("detect_speech", d.error)
        ELSE IF validate_audio(speech, policy.min_speech_seconds) # "ok"
        THEN F("validate_audio", validate_audio(speech, policy.min_speech_seconds))
        ELSE IF phonetic /\ t.status = "raise" THEN F("transcribe", t.error)
        ELSE IF phonetic /\ p.status = "raise" THEN F("extract_phonemes", p.error)
        ELSE IF policy.min_unique_phonemes # None
                /\ validate_passphrase(p.phoneme, policy.min_unique_phonemes[1]) # "ok"
        THEN F("validate_passphrase",
               validate_passphrase(p.phoneme, policy.min_unique_phonemes[1]))
        ELSE IF e.status = "raise" THEN F("extract_embedding", e.error)
        ELSE None

\* C24: in an add_sample or verify call, the first stage that fails ends the
\* call: the stages invoked are exactly the policy's stages up to and including
\* that one, each once (none retried, skipped or run afterwards), the call
\* raises exactly that stage's error, and verify yields no VerificationResult.
\* When no stage fails the call returns after all the policy's stages.
C24_FirstFailureEndsCall ==
    (result # None /\ args.fn \in {"add_sample", "verify"}) =>
        LET f == FirstFailure(args.policy, args.audio, args.vad, args.asr, args.emb)
            stages == PolicyStages(args.policy)
            r == result[1].ret
        IN  IF f # None
            THEN /\ r.status = "raise"
                 /\ r.error = f[1].error
                 /\ \E n \in 1..Len(stages) :
                       /\ stages[n] = f[1].stage
                       /\ r.calls = SubSeq(stages, 1, n)
                 /\ r.value = None
                 /\ result[1].enroller = NewEnroller
            ELSE /\ r.status = "ok"
                 /\ r.calls = stages
                 /\ args.fn = "verify" => r.value # None

\* verify has failed in the middle of the pipeline, at the phoneme extraction
\* (blank transcript), with an embedding extractor that would have answered
C24_Witness ==
    /\ result # None /\ args.fn = "verify"
    /\ result[1].ret.status = "raise"
    /\ result[1].ret.error = "EmptyPassphraseError"
    /\ result[1].ret.value = None
    /\ args.emb.model = "ok" /\ args.emb.ready


\* m is the earliest index among those with the smallest distance sum in s
EarliestMedoid(s, m) ==
    LET distances == pairwise_distances(s)
        sums == [j \in 1..Len(s) |-> RowSum(distances[j], Len(s))]
    IN  /\ m \in 1..Len(s)
        /\ \A j \in 1..Len(s) :
              /\ RatLE(sums[m], sums[j])
              /\ j < m => RatLT(sums[m], sums[j])

\* C26: an add_sample that returns puts its embedding and its phoneme sequence
\* at the end of the Enroller's lists and leaves the earlier entries in place,
\* and enroll leaves the lists alone, so the i-th entries are the results of the
\* i-th add_sample that returned.  The reference phoneme sequence of the
\* artifact is the sample at the earliest index among those with the smallest
\* distance sum; after [a,i,u,e,o], [a,i,u,e,o], [a,i,u,e,a] under the
\* threshold 0.3 that index is the first one and the reference is [a,i,u,e,o].
C26_AddOrderKept ==
    [][ /\ (ret'.op = "add_sample" /\ ret'.status = "ok") =>
            /\ enroller'.embeddings
                 = Append(enroller.embeddings, ret'.value[1].embedding)
            /\ enroller'.phoneme_samples
                 = Append(enroller.phoneme_samples, ret'.value[1].phoneme)
        /\ ret'.op = "enroll" => enroller' = enroller
        /\ (ret'.op = "enroll" /\ ret'.status = "ok") =>
            LET s == enroller'.phoneme_samples
                m == select_medoid(pairwise_distances(s))
            IN  /\ EarliestMedoid(s, m)
                /\ ret'.value[1].phoneme = s[m]
                /\ s = << <<"a", "i", "u", "e", "o">>, <<"a", "i", "u", "e", "o">>,
                          <<"a", "i", "u", "e", "a">> >>
                     => m = 1 /\ ret'.value[1].phoneme = <<"a", "i", "u", "e", "o">>
      ]_vars

\* enroll has returned the first of two different samples that tie (each has
\* the other at distance 0.2): the one added first is the reference
C26_Witness ==
    /\ ret.op = "enroll" /\ ret.status = "ok"
    /\ enroller.phoneme_samples
         = << <<"a", "i", "u", "e", "a">>, <<"a", "i", "u", "e", "o">> >>
    /\ enroller.embeddings[1] # enroller.embeddings[2]
    /\ ret.value[1].phoneme = <<"a", "i", "u", "e", "a">>


\* enroll on the accumulator e fails with the phoneme-inconsistency error
EnrollInconsistent(e) == enroll(e, auth).error = "PassphraseEnrollmentError"

\* C27: once enroll has failed with the phoneme-inconsistency error on an
\* Enroller, it fails with that error on every later call on that Enroller,
\* whatever add_sample calls come in between: an accumulator on which enroll
\* fails so (as it does right after such a failure) is still one after any
\* add_sample or enroll call on the Enroller, and an enroll call on it raises
\* that error.
C27_InconsistencyPersists ==
    [][ /\ (ret'.op = "enroll" /\ ret'.error = "PassphraseEnrollmentError")
              => EnrollInconsistent(enroller')
        /\ (EnrollInconsistent(enroller) /\ ret'.op \in {"add_sample", "enroll"}) =>
              /\ EnrollInconsistent(enroller')
              /\ ret'.op = "enroll" =>
                    /\ ret'.status = "raise"
                    /\ ret'.error = "PassphraseEnrollmentError"
      ]_vars

\* enroll has failed again on three samples whose first two are inconsistent
\* and whose last two agree: the sample added after the first failure did not
\* push the inconsistent pair out
C27_Witness ==
    /\ ret.op = "enroll" /\ ret.error = "PassphraseEnrollmentError"
    /\ sample_count(enroller) = 3
    /\ enroller.phoneme_samples[1] = <<"k", "a", "u", "e", "o">>
    /\ enroller.phoneme_samples[2] = <<"a", "i", "u", "e", "o">>
    /\ enroller.phoneme_samples[3] = <<"a", "i", "u", "e", "o">>
    /\ ret.detail[1].i = 1 /\ ret.detail[1].j = 2


\* C28: enroll never changes the Enroller's accumulator, whether it returns an
\* artifact or raises: both lists and sample_count are the same after the call
\* as before; two enroll calls with no add_sample between them have the same
\* outcome; and the artifact is computed from all the samples held at the call,
\* those added after an earlier enroll included: its embedding is the mean of
\* all the embeddings and its reference the medoid of all the phoneme samples.
C28_EnrollKeepsAccumulator ==
    [][ ret'.op = "enroll" =>
          /\ enroller'.embeddings = enroller.embeddings
          /\ enroller'.phoneme_samples = enroller.phoneme_samples
          /\ sample_count(enroller') = sample_count(enroller)
          /\ ret.op = "enroll" => ret' = ret
          /\ ret'.status = "ok" =>
                LET n == sample_count(enroller')
                    s == enroller'.phoneme_samples
                    mean == ret'.value[1].embedding
                IN  /\ \A k \in 1..Len(mean) :
                          mean[k] * n = ColumnSum(enroller'.embeddings, k, n)
                    /\ \E m \in 1..n : /\ EarliestMedoid(s, m)
                                       /\ ret'.value[1].phoneme = s[m]
      ]_vars

\* enroll has returned on three samples of which the third moved both the
\* mean and the medoid: on the first two alone the reference would have been
\* the first sample
C28_Witness ==
    /\ ret.op = "enroll" /\ ret.status = "ok"
    /\ enroller.phoneme_samples
         = << <<"a", "i", "u", "e", "a">>, <<"a", "i", "u", "e", "o">>,
              <<"a", "i", "u", "e", "o">> >>
    /\ ret.value[1].phoneme = <<"a", "i", "u", "e", "o">>
    /\ ret.value[1].embedding # MeanValues(SubSeq(enroller.embeddings, 1, 2))


\* C29: verify never changes the Verifier's embedding or reference phonemes nor
\* the thresholds of the PassphraseAuth, so what verify yields on an input does
\* not depend on the verify calls made before: after a verify call on a
\* Verifier, verify on that Verifier maps every pipeline outcome to the result
\* it mapped it to before the call, and the call's own result is that of its
\* outcome against the Verifier as it was.
C29_VerifyKeepsVerifier ==
    [][ \A k \in InstanceIds :
          (ret'.op = "verify" /\ sessions'.on = <<"verifier", k>>) =>
              /\ sessions'.verifiers[k][1].embedding = sessions.verifiers[k][1].embedding
              /\ sessions'.verifiers[k][1].phoneme = sessions.verifiers[k][1].phoneme
              /\ auth' = auth
              /\ \A r \in InstanceOutcomes :
                    verify(sessions'.verifiers[k][1], auth', r)
                      = verify(sessions.verifiers[k][1], auth, r)
              /\ \E r \in InstanceOutcomes :
                    ret' = verify(sessions.verifiers[k][1], auth, r)
      ]_vars

\* a verify call on the first Verifier has returned an acceptance, and the
\* Verifier still holds the artifact's reference
C29_Witness ==
    /\ sessions # None
    /\ sessions.on = <<"verifier", 1>>
    /\ ret.op = "verify" /\ ret.status = "ok"
    /\ ret.value[1].accepted
    /\ sessions.verifiers[1][1].phoneme # None


\* C30: is_downloaded(model) is true only when a download of the model has
\* completed without error; after a download that failed part-way (the
\* connection broke during the transfer, or the archive failed to extract)
\* is_downloaded(model) is false, so that a later download or ensure_download
\* fetches the model again.
C30_DownloadedOnlyIfCompleted ==
    cache # None =>
        \A model \in Models :
            is_downloaded(cache.disk, model) => model \in cache.completed

=============================================================================
